---- MODULE Spec2Model ----
(***************************************************************************)
(* Model of parse_unihan.py: the batch pipeline that merges the Unihan     *)
(* archive, CC-CEDICT, the CHISE IDS corpus and the two SUBTLEX frequency  *)
(* tables into radicals.json.                                              *)
(*                                                                         *)
(* Characters are code points (integers).  A code-point identifier is the  *)
(* text "U+XXXX" of a source line: a record that is either well formed     *)
(* (hex digits after the prefix) or not.  Python dicts are insertion       *)
(* ordered: a dict is a sequence of <<key, value>> pairs with unique keys. *)
(***************************************************************************)
EXTENDS Integers, Sequences, FiniteSets, TLC

(***************************************************************************)
(* Python dict, list and optional values                                   *)
(***************************************************************************)
DictHas(d, k) == \E i \in 1..Len(d) : d[i][1] = k

DictGet(d, k, default) ==
    IF DictHas(d, k)
    THEN d[CHOOSE i \in 1..Len(d) : d[i][1] = k][2]
    ELSE default

DictSet(d, k, v) ==
    IF DictHas(d, k)
    THEN [i \in 1..Len(d) |-> IF d[i][1] = k THEN <<k, v>> ELSE d[i]]
    ELSE Append(d, <<k, v>>)

DictKeys(d) == [i \in 1..Len(d) |-> d[i][1]]

KeySet(d) == {d[i][1] : i \in 1..Len(d)}

Elems(s) == {s[i] : i \in 1..Len(s)}

\* x in list
InList(x, s) == \E i \in 1..Len(s) : s[i] = x

\* None is the empty sequence, a present value a one-element sequence.
None == <<>>

Some(x) == <<x>>

\* dict.get(k) with no default: the value or None
DictFind(d, k) == IF DictHas(d, k) THEN Some(DictGet(d, k, None)) ELSE None

\* An extractor either returns a value or raises.
Returned(v) == [exc |-> "", val |-> v]

Raised(e) == [exc |-> e, val |-> <<>>]

(***************************************************************************)
(* Code-point identifiers                                                  *)
(***************************************************************************)
\* the text "U+XXXX" naming code point n
\* (the spelling f"U+{n:04X}" produces: upper-case digits, four at least)
Cp(n) == [hex |-> n, wellformed |-> TRUE, canonical |-> TRUE]

\* another spelling of code point n that int(..., 16) accepts, such as
\* "U+5b89" (lower-case digits): a different dictionary key
LowerCp(n) == [hex |-> n, wellformed |-> TRUE, canonical |-> FALSE]

\* an identifier whose tail is not hexadecimal, such as "U+ZZZZ"
BadCp == [hex |-> 0, wellformed |-> FALSE, canonical |-> FALSE]

\* chr(int(cp[2:], 16)): raises ValueError on a tail that is not hexadecimal
CodepointRaises(cp) == ~cp.wellformed

codepoint_to_char(cp) == cp.hex

\* f"U+{ord(comp):04X}"
FormatCodepoint(c) == Cp(c)

(***************************************************************************)
(* The sources.  The sample corpus below is what the five sources hold by  *)
(* default; a run reads any corpus that differs from the sample in at most *)
(* MaxEdits places: a pool line marked base is dropped, a pool line not    *)
(* marked base is added (in pool order), or a source is made unavailable.  *)
(***************************************************************************)
MaxEdits == 2

\* 安 宀 女 传 傳 and 止 (the literal of &CDP-8B68;), x (Latin residue)
Sample == <<23433, 23424, 22899, 20256, 20659, 27490, 120>>

An == Sample[1]

Mian == Sample[2]

Nv == Sample[3]

ChuanS == Sample[4]

ChuanT == Sample[5]

Zhi == Sample[6]

LatinX == Sample[7]

\* one tab-delimited line of a Unihan property file
Line(cp, field, value) == [kind |-> "data", cp |-> cp, field |-> field, value |-> value]

\* a comment line, a blank line or a line of fewer than three fields
Skipped(kind) == [kind |-> kind, cp |-> BadCp, field |-> "", value |-> <<>>]

Base(l) == [base |-> TRUE, line |-> l]

Extra(l) == [base |-> FALSE, line |-> l]

\* Unihan_Readings.txt: the value of kMandarin is a list of readings.  A value
\* of no readings is a blank third column followed by a fourth (a line that
\* ends after a blank third column is stripped to two columns and skipped)
ReadingsPool == <<
    Base(Line(Cp(An), "kDefinition", "peaceful")),
    Base(Line(Cp(An), "kMandarin", <<"AN1", "an4">>)),
    Base(Line(Cp(Mian), "kMandarin", <<"mian2">>)),
    Extra(Line(Cp(Mian), "kDefinition", "roof")),
    Base(Line(Cp(Nv), "kMandarin", <<"nu3">>)),
    Base(Line(Cp(Nv), "kDefinition", "woman")),
    Base(Line(Cp(ChuanS), "kDefinition", "pass on")),
    Base(Line(Cp(ChuanT), "kDefinition", "summon")),
    Base(Line(Cp(ChuanT), "kMandarin", <<"chuan2">>)),
    Extra(Line(Cp(An), "kCantonese", <<"on1">>)),
    Extra(Line(Cp(Mian), "kMandarin", <<>>)),
    Extra(Line(Cp(An), "kDefinition", "calm")),
    Extra(Line(LowerCp(An), "kDefinition", "quiet")),
    Extra(Line(LowerCp(Mian), "kMandarin", <<"mian2">>)) >>

\* one dot-separated part of a kRSUnicode token: digits, possibly followed by
\* apostrophes, or text that is no integer
Num(n) == [digits |-> TRUE, n |-> n, marked |-> FALSE]

Marked(n) == [digits |-> TRUE, n |-> n, marked |-> TRUE]

Word == [digits |-> FALSE, n |-> 0, marked |-> FALSE]

\* Unihan_IRGSources.txt: the value is a list of tokens, each a list of parts
RadicalStrokePool == <<
    Base(Line(Cp(An), "kRSUnicode", << <<Num(40), Num(3)>> >>)),
    Base(Line(Cp(Mian), "kRSUnicode", << <<Num(40), Num(0)>> >>)),
    Base(Line(Cp(Nv), "kRSUnicode", << <<Num(38), Num(0)>> >>)),
    Base(Line(Cp(ChuanS), "kRSUnicode", << <<Num(9), Num(4)>> >>)),
    Base(Line(Cp(ChuanT), "kRSUnicode", << <<Marked(9), Num(11)>>, <<Num(9), Num(12)>> >>)),
    Extra(Line(Cp(An), "kRSUnicode", << <<Num(40)>> >>)),
    Extra(Line(Cp(Nv), "kRSUnicode", << <<Word, Num(3)>> >>)),
    Extra(Line(Cp(Nv), "kRSUnicode", << <<Num(215), Num(1)>> >>)),
    Extra(Line(BadCp, "kRSUnicode", << <<Num(9), Num(2)>> >>)),
    Extra(Line(Cp(An), "kRSUnicode", <<>>)),
    Extra(Line(Cp(An), "kRSUnicode", << <<Num(1), Num(2)>> >>)),
    Extra(Line(LowerCp(An), "kRSUnicode", << <<Num(40), Num(3)>> >>)) >>

\* Unihan_DictionaryLikeData.txt: the value is one part
GradePool == <<
    Base(Line(Cp(An), "kGradeLevel", Num(1))),
    Base(Line(Cp(ChuanT), "kGradeLevel", Num(3))),
    Extra(Line(Cp(Nv), "kGradeLevel", Word)),
    Extra(Line(Cp(Mian), "kGradeLevel", Num(2))),
    Extra(Line(Cp(ChuanS), "kGradeLevel", Num(2))),
    Extra(Line(LowerCp(Nv), "kGradeLevel", Num(2))) >>

\* one space-separated token of a variant value: "U+XXXX", "U+XXXX<kSource"
\* or text without the U+ prefix
Cand(cp) == [prefixed |-> TRUE, cp |-> cp, tagged |-> FALSE]

Tagged(cp) == [prefixed |-> TRUE, cp |-> cp, tagged |-> TRUE]

Unprefixed == [prefixed |-> FALSE, cp |-> BadCp, tagged |-> FALSE]

\* Unihan_Variants.txt
VariantsPool == <<
    Base(Line(Cp(ChuanS), "kTraditionalVariant", <<Cand(Cp(ChuanT))>>)),
    Base(Line(Cp(ChuanT), "kSimplifiedVariant", <<Tagged(Cp(ChuanS))>>)),
    Base(Line(Cp(Mian), "kTraditionalVariant", <<Cand(Cp(Mian)), Cand(Cp(Nv))>>)),
    Base(Line(Cp(Nv), "kTraditionalVariant", <<Unprefixed, Tagged(Cp(An))>>)),
    Extra(Line(Cp(An), "kSimplifiedVariant", <<Cand(Cp(An))>>)),
    Extra(Line(BadCp, "kSemanticVariant", <<Cand(Cp(An))>>)),
    Extra(Line(Cp(An), "kTraditionalVariant", <<Cand(BadCp)>>)),
    Extra(Line(Cp(An), "kSimplifiedVariant", <<Cand(Cp(Nv))>>)),
    Extra(Skipped("short")) >>

\* one CC-CEDICT line: of the shape  trad simp [pinyin] /def/.../  or not
Entry(trad, simp, pinyin, defs) ==
    [kind |-> "data", shape |-> TRUE, traditional |-> trad, simplified |-> simp,
     pinyin |-> pinyin, definitions |-> defs]

NoEntry(kind) ==
    [kind |-> kind, shape |-> FALSE, traditional |-> <<>>, simplified |-> <<>>,
     pinyin |-> "", definitions |-> <<>>]

CedictPool == <<
    Base(Entry(<<An>>, <<An>>, "an1", <<"calm", "safe">>)),
    Extra(Entry(<<An, Nv>>, <<An, Nv>>, "an1 nu3", <<"maiden">>)),
    Base(Entry(<<ChuanT, An>>, <<ChuanS, An>>, "chuan2 an1", <<"tradition", "convention">>)),
    Extra(Entry(<<Nv, Nv>>, <<Nv, Nv>>, "nu3 nu3", <<"girls">>)),
    Extra(NoEntry("data")),
    Extra(Entry(<<An>>, <<An>>, "an4", <<"peace", "quiet">>)),
    Extra(Entry(<<Mian>>, <<Mian>>, "mian2", <<"roof">>)) >>

\* one code unit of a CHISE descriptor, or one entity reference &NAME;
Ch(c) == [t |-> "char", c |-> c, name |-> ""]

\* the operator U+2FF1 (stacks above)
Op == Ch(12273)

Entity(name) == [t |-> "entity", c |-> 0, name |-> name]

\* one line of an IDS file: codepoint, character, descriptor
Ids(c, raw) == [kind |-> "data", cp |-> Cp(c), char |-> c, ids_raw |-> raw]

NoIds(kind) == [kind |-> kind, cp |-> BadCp, char |-> 0, ids_raw |-> <<>>]

\* IDS-UCS-Basic.txt
ChiseBasicPool == <<
    Base(Ids(An, <<Op, Ch(Mian), Ch(Nv)>>)),
    Base(Ids(ChuanT, <<Op, Ch(ChuanT), Ch(Nv)>>)),
    Base(Ids(Nv, <<Ch(Nv)>>)),
    Extra(Ids(ChuanS, <<Op, Entity("&CDP-8B68;"), Ch(Nv)>>)),
    Extra(Ids(Mian, <<Op, Entity("&M-12345;"), Ch(Nv)>>)),
    Extra(Ids(Mian, <<Op, Entity("&M-12345;"), Ch(Nv), Ch(An)>>)),
    Extra(Ids(Nv, <<Op, Ch(LatinX), Ch(An)>>)),
    Extra(Ids(ChuanT, <<Op, Entity("&M-12345;"), Ch(ChuanT), Ch(An)>>)) >>

\* IDS-UCS-Ext-A.txt
ChiseExtAPool == <<
    Extra(Ids(An, <<Op, Ch(Nv), Ch(Mian)>>)),
    Extra(Ids(ChuanS, <<Op, Ch(ChuanS), Ch(ChuanS)>>)),
    Extra(NoIds("comment")) >>

\* the first cell of a spreadsheet row: a string (its code units), a number
\* or empty
Str(s) == [type |-> "str", text |-> s]

Number == [type |-> "number", text |-> <<>>]

Empty == [type |-> "empty", text |-> <<>>]

\* "Word", "Total word count: 33,546,516", "Context number: 6,243" and "C"
HeaderWord == <<87, 111, 114, 100>>

HeaderTotal ==
    <<84, 111, 116, 97, 108, 32, 119, 111, 114, 100, 32, 99, 111,
     117, 110, 116, 58, 32, 51, 51, 44, 53, 52, 54, 44, 53, 49, 54>>

HeaderContext == <<67, 111, 110, 116, 101, 120, 116, 32, 110, 117, 109, 98, 101, 114, 58, 32, 54, 44, 50, 52, 51>>

HeaderC == <<67>>

\* SUBTLEX-CH-WF.xlsx
WordFreqPool == <<
    Base(Str(HeaderWord)),
    Base(Str(<<An, Nv>>)),
    Base(Number),
    Base(Str(<<An>>)),
    Extra(Str(<<ChuanS, An>>)),
    Extra(Str(HeaderContext)),
    Extra(Str(<<An, Nv>>)) >>

\* SUBTLEX-CH-CHR.xlsx
CharFreqPool == <<
    Base(Str(HeaderC)),
    Base(Str(<<An>>)),
    Base(Str(<<An, Nv>>)),
    Base(Str(<<ChuanS>>)),
    Extra(Str(<<Nv>>)) >>

\* the ways a source can be unavailable
Faults == <<"unihan.zip missing", "Unihan_Readings.txt missing",
            "Unihan_IRGSources.txt missing", "Unihan_DictionaryLikeData.txt missing",
            "Unihan_Variants.txt missing", "cedict.txt missing",
            "IDS-UCS-Basic.txt missing", "IDS-UCS-Basic.txt unreadable",
            "IDS-UCS-Ext-A.txt missing", "IDS-UCS-Ext-A.txt unreadable",
            "SUBTLEX-CH-WF.xlsx missing", "SUBTLEX-CH-CHR.xlsx missing",
            "openpyxl missing">>

\* edits that touch a source: <<source, i>> toggles line i of the source's
\* pool, <<"fault", i>> makes Faults[i] true
EditsOf(source, pool) == {<<source, i>> : i \in 1..Len(pool)}

FaultIds(names) == {<<"fault", i>> : i \in {j \in 1..Len(Faults) : Faults[j] \in names}}

Fault(name, ed) == \E i \in 1..Len(Faults) : Faults[i] = name /\ <<"fault", i>> \in ed

RECURSIVE SubsetsUpTo(_, _)
\* the subsets of S with at most k elements
SubsetsUpTo(S, k) ==
    IF k <= 0 THEN {{}}
    ELSE LET smaller == SubsetsUpTo(S, k - 1)
         IN  smaller \cup {p \cup {x} : p \in smaller, x \in S}

RECURSIVE SelectLines(_, _, _, _)
\* the lines of a source, in file order, under the edits ed
SelectLines(pool, source, ed, i) ==
    IF i > Len(pool) THEN <<>>
    ELSE (IF pool[i].base # (<<source, i>> \in ed) THEN <<pool[i].line>> ELSE <<>>)
         \o SelectLines(pool, source, ed, i + 1)

FileLines(pool, source, ed) == SelectLines(pool, source, ed, 1)

(***************************************************************************)
(* parse_unihan_readings, parse_unihan_radical_stroke,                     *)
(* parse_unihan_grade_level                                                *)
(***************************************************************************)
\* `if not line or line.startswith("#")` and `if len(parts) < 3`
IsData(line) == line.kind = "data"

\* str.lower() on the readings of the sample corpus
Lower(token) == IF token = "AN1" THEN "an1" ELSE token

\* a bug: the last listed reading instead of the first
FirstReading_Last(value) == Lower(value[Len(value)])

\* `value.split()[0].lower()`
FirstReading(value) == Lower(value[1])

RECURSIVE ReadingsFrom(_, _, _)
ReadingsFrom(lines, i, readings) ==
    IF i > Len(lines) THEN Returned(readings)
    ELSE LET line == lines[i]
             entry == DictGet(readings, line.cp, <<>>)
             created == DictSet(readings, line.cp, entry)
         IN  IF ~IsData(line) THEN ReadingsFrom(lines, i + 1, readings)
             ELSE IF line.field = "kMandarin"
             THEN IF line.value = <<>>
                  THEN Raised("IndexError")
                  ELSE ReadingsFrom(lines, i + 1,
                           DictSet(created, line.cp,
                                   DictSet(entry, "pinyin", FirstReading(line.value))))
             ELSE IF line.field = "kDefinition"
             THEN ReadingsFrom(lines, i + 1,
                      DictSet(created, line.cp, DictSet(entry, "definition", line.value)))
             ELSE ReadingsFrom(lines, i + 1, created)

parse_unihan_readings(lines) == ReadingsFrom(lines, 1, <<>>)

\* int(s) after rs.replace("'", ""): raises ValueError unless s is digits
IntRaises(part) == ~part.digits

\* `radical_str, strokes_str = rs.split(".")` then int() of both: ValueError
\* unless there are exactly two parts and both are integers
RadicalStrokeRaises(token) ==
    \/ Len(token) # 2
    \/ IntRaises(token[1])
    \/ IntRaises(token[2])

RECURSIVE RadicalStrokeFrom(_, _, _)
RadicalStrokeFrom(lines, i, radical_data) ==
    IF i > Len(lines) THEN Returned(radical_data)
    ELSE LET line == lines[i]
         IN  IF ~IsData(line) \/ line.field # "kRSUnicode"
             THEN RadicalStrokeFrom(lines, i + 1, radical_data)
             ELSE IF line.value = <<>>
             THEN Raised("IndexError")
             ELSE IF RadicalStrokeRaises(line.value[1])
             THEN RadicalStrokeFrom(lines, i + 1, radical_data)
             ELSE RadicalStrokeFrom(lines, i + 1,
                      DictSet(radical_data, line.cp,
                              [radical |-> line.value[1][1].n,
                               strokes |-> line.value[1][2].n]))

parse_unihan_radical_stroke(lines) == RadicalStrokeFrom(lines, 1, <<>>)

\* int(value) with no apostrophe stripping
GradeRaises(part) == ~part.digits \/ part.marked

RECURSIVE GradeFrom(_, _, _)
GradeFrom(lines, i, grade_data) ==
    IF i > Len(lines) THEN Returned(grade_data)
    ELSE LET line == lines[i]
         IN  IF ~IsData(line) \/ line.field # "kGradeLevel" \/ GradeRaises(line.value)
             THEN GradeFrom(lines, i + 1, grade_data)
             ELSE GradeFrom(lines, i + 1,
                      DictSet(grade_data, line.cp, [gradeLevel |-> line.value.n]))

parse_unihan_grade_level(lines) == GradeFrom(lines, 1, <<>>)

(***************************************************************************)
(* parse_variants                                                          *)
(***************************************************************************)
\* `[v.strip() for v in value.split() if v.strip().startswith("U+")]`
Prefixed(value) == SelectSeq(value, LAMBDA v : v.prefixed)

\* a bug: the first candidate, a self-reference included
FirstOther_Any(cands, i, char) ==
    IF i > Len(cands) THEN Returned(None)
    ELSE IF CodepointRaises(cands[i].cp) THEN Raised("ValueError")
    ELSE Returned(Some(codepoint_to_char(cands[i].cp)))

RECURSIVE FirstOther(_, _, _)
\* the loop over the candidates: the first candidate that is not char, None
\* when there is none; raises when a candidate reached is not hexadecimal
FirstOther(cands, i, char) ==
    IF i > Len(cands) THEN Returned(None)
    ELSE IF CodepointRaises(cands[i].cp) THEN Raised("ValueError")
    ELSE IF codepoint_to_char(cands[i].cp) # char
         THEN Returned(Some(codepoint_to_char(cands[i].cp)))
         ELSE FirstOther(cands, i + 1, char)

RECURSIVE VariantsFrom(_, _, _, _)
VariantsFrom(lines, i, simp_to_trad, trad_to_simp) ==
    IF i > Len(lines) THEN Returned(<<simp_to_trad, trad_to_simp>>)
    ELSE LET line == lines[i]
             char == codepoint_to_char(line.cp)
             found == FirstOther(Prefixed(line.value), 1, char)
         IN  IF ~IsData(line) THEN VariantsFrom(lines, i + 1, simp_to_trad, trad_to_simp)
             ELSE IF CodepointRaises(line.cp) THEN Raised("ValueError")
             ELSE IF line.field \notin {"kTraditionalVariant", "kSimplifiedVariant"}
             THEN VariantsFrom(lines, i + 1, simp_to_trad, trad_to_simp)
             ELSE IF found.exc # "" THEN found
             ELSE IF found.val = None
             THEN VariantsFrom(lines, i + 1, simp_to_trad, trad_to_simp)
             ELSE IF line.field = "kTraditionalVariant"
             THEN VariantsFrom(lines, i + 1,
                      DictSet(simp_to_trad, char, found.val[1]), trad_to_simp)
             ELSE VariantsFrom(lines, i + 1,
                      simp_to_trad, DictSet(trad_to_simp, char, found.val[1]))

parse_variants(lines) == VariantsFrom(lines, 1, <<>>, <<>>)

(***************************************************************************)
(* parse_cedict                                                            *)
(***************************************************************************)
RECURSIVE IndexByChar_NoDedup(_, _, _)
\* a bug: the word is appended for every occurrence of the character
IndexByChar_NoDedup(simplified, j, by_char) ==
    IF j > Len(simplified) THEN by_char
    ELSE IndexByChar_NoDedup(simplified, j + 1,
             DictSet(by_char, simplified[j],
                     Append(DictGet(by_char, simplified[j], <<>>), simplified)))

RECURSIVE IndexByChar(_, _, _)
\* `for char in simplified: if simplified not in by_char[char]: append`
IndexByChar(simplified, j, by_char) ==
    IF j > Len(simplified) THEN by_char
    ELSE LET listed == DictGet(by_char, simplified[j], <<>>)
         IN  IndexByChar(simplified, j + 1,
                 DictSet(by_char, simplified[j],
                         IF InList(simplified, listed) THEN listed
                         ELSE Append(listed, simplified)))

RECURSIVE CedictFrom_FirstWins(_, _, _, _)
\* a bug: a later line does not overwrite the entry of an earlier one
CedictFrom_FirstWins(lines, i, words, by_char) ==
    IF i > Len(lines) THEN [words |-> words, by_char |-> by_char]
    ELSE LET line == lines[i]
         IN  IF ~IsData(line) \/ ~line.shape
             THEN CedictFrom_FirstWins(lines, i + 1, words, by_char)
             ELSE CedictFrom_FirstWins(lines, i + 1,
                      IF DictHas(words, line.simplified) THEN words
                      ELSE DictSet(words, line.simplified,
                               [traditional |-> line.traditional,
                                pinyin |-> line.pinyin,
                                definition |-> line.definitions[1]]),
                      IndexByChar(line.simplified, 1, by_char))

RECURSIVE CedictFrom(_, _, _, _)
\* `for line in f`: lines that are blank, comments or not of the shape are
\* skipped
CedictFrom(lines, i, words, by_char) ==
    IF i > Len(lines) THEN [words |-> words, by_char |-> by_char]
    ELSE LET line == lines[i]
         IN  IF ~IsData(line) \/ ~line.shape
             THEN CedictFrom(lines, i + 1, words, by_char)
             ELSE CedictFrom(lines, i + 1,
                      DictSet(words, line.simplified,
                              [traditional |-> line.traditional,
                               pinyin |-> line.pinyin,
                               definition |-> line.definitions[1]]),
                      IndexByChar(line.simplified, 1, by_char))

parse_cedict(lines) == CedictFrom(lines, 1, <<>>, <<>>)

(***************************************************************************)
(* parse_subtlex, parse_subtlex_char                                       *)
(***************************************************************************)
\* `word and isinstance(word, str) and len(word) >= 1`
IsWordCell(cell) == cell.type = "str" /\ Len(cell.text) >= 1

\* `char and isinstance(char, str) and len(char) == 1`
IsCharCell(cell) == cell.type = "str" /\ Len(cell.text) = 1

RECURSIVE SubtlexFrom_CountAll(_, _, _, _)
\* a bug: every row consumes a rank, skipped rows included
SubtlexFrom_CountAll(rows, i, rank, freq_data) ==
    IF i > Len(rows) THEN freq_data
    ELSE IF ~IsWordCell(rows[i]) \/ rows[i].text \in {HeaderWord, HeaderTotal, HeaderContext}
    THEN SubtlexFrom_CountAll(rows, i + 1, rank + 1, freq_data)
    ELSE SubtlexFrom_CountAll(rows, i + 1, rank + 1, DictSet(freq_data, rows[i].text, rank + 1))

RECURSIVE SubtlexFrom(_, _, _, _)
SubtlexFrom(rows, i, rank, freq_data) ==
    IF i > Len(rows) THEN freq_data
    ELSE IF ~IsWordCell(rows[i]) \/ rows[i].text \in {HeaderWord, HeaderTotal, HeaderContext}
    THEN SubtlexFrom(rows, i + 1, rank, freq_data)
    ELSE SubtlexFrom(rows, i + 1, rank + 1, DictSet(freq_data, rows[i].text, rank + 1))

parse_subtlex(rows) == SubtlexFrom(rows, 1, 0, <<>>)

RECURSIVE SubtlexCharFrom(_, _, _, _)
SubtlexCharFrom(rows, i, rank, freq_data) ==
    IF i > Len(rows) THEN freq_data
    ELSE IF ~IsCharCell(rows[i]) \/ rows[i].text = HeaderC
    THEN SubtlexCharFrom(rows, i + 1, rank, freq_data)
    ELSE SubtlexCharFrom(rows, i + 1, rank + 1, DictSet(freq_data, rows[i].text[1], rank + 1))

parse_subtlex_char(rows) == SubtlexCharFrom(rows, 1, 0, <<>>)

(***************************************************************************)
(* parse_chise_ids, build_appears_in                                       *)
(***************************************************************************)
\* ids_operators, U+2FF0..U+2FFB
IdsOperators == 12272..12283

\* cdp_to_unicode
CdpToUnicode ==
    << <<"&CDP-8BCE;", 40880>>, <<"&CDP-8B7D;", 11904>>, <<"&CDP-89AE;", 40886>>,
       <<"&CDP-8BF1;", 40887>>, <<"&CDP-8CC6;", 11905>>, <<"&CDP-85D5;", 20866>>,
       <<"&CDP-89CE;", 11940>>, <<"&CDP-8B68;", 27490>>, <<"&CDP-87B5;", 13630>>,
       <<"&CDP-8B42;", 30326>>, <<"&CDP-89A6;", 11914>>, <<"&CDP-8DE2;", 40889>>,
       <<"&CDP-89AB;", 32770>>, <<"&CDP-8CB5;", 11945>>, <<"&CDP-8B5E;", 26140>> >>

\* `ids_processed.replace(entity, unicode_char)` for every table entry
ReplaceKnown(ids_raw) ==
    [k \in 1..Len(ids_raw) |->
        IF ids_raw[k].t = "entity" /\ DictHas(CdpToUnicode, ids_raw[k].name)
        THEN Ch(DictGet(CdpToUnicode, ids_raw[k].name, 0))
        ELSE ids_raw[k]]

\* entity_pattern.search
HasEntity(ids) == \E k \in 1..Len(ids) : ids[k].t = "entity"

\* entity_pattern.sub('', ...)
StripEntities(ids) == SelectSeq(ids, LAMBDA u : u.t # "entity")

\* `[c for c in ids_clean if c not in ids_operators]`
NonOperatorChars(ids) == SelectSeq(ids, LAMBDA u : u.c \notin IdsOperators)

\* a bug: no range is required of a component
InCjkRanges_Any(code) == code >= 0

\* the four ranges a component must lie in
InCjkRanges(code) ==
    \/ 19968 <= code /\ code <= 40959
    \/ 13312 <= code /\ code <= 19903
    \/ 11904 <= code /\ code <= 12031
    \/ 12032 <= code /\ code <= 12255

\* a bug: the character itself is kept as a component
IsComponent_KeepSelf(u, char) == u.c \notin IdsOperators /\ InCjkRanges(u.c)

\* the test a code unit of the descriptor passes to become a component
IsComponent(u, char) == u.c \notin IdsOperators /\ u.c # char /\ InCjkRanges(u.c)

ExtractComponents(ids, char) ==
    LET kept == SelectSeq(ids, LAMBDA u : IsComponent(u, char))
    IN  [k \in 1..Len(kept) |-> kept[k].c]

\* one line of an IDS file applied to ids_data
ChiseLine(line, ids_data) ==
    LET ids_processed == ReplaceKnown(line.ids_raw)
        ids_clean == StripEntities(ids_processed)
        ids == IF HasEntity(ids_processed) THEN ids_clean ELSE ids_processed
        components == ExtractComponents(ids, line.char)
    IN  IF ~IsData(line) THEN ids_data
        ELSE IF HasEntity(ids_processed) /\ Len(NonOperatorChars(ids_clean)) < 2
        THEN ids_data
        ELSE IF ids # <<Ch(line.char)>> /\ Len(components) >= 1
        THEN DictSet(ids_data, line.char, [ids |-> ids, components |-> components])
        ELSE ids_data

RECURSIVE ChiseFrom(_, _, _)
ChiseFrom(lines, i, ids_data) ==
    IF i > Len(lines) THEN ids_data
    ELSE ChiseFrom(lines, i + 1, ChiseLine(lines[i], ids_data))

\* a bug: the files are read in the reverse of the order of ids_files
parse_chise_ids_Reversed(files, f, ids_data) ==
    IF Len(files) = 2 THEN ChiseFrom(files[1], 1, ChiseFrom(files[2], 1, ids_data))
    ELSE IF Len(files) = 1 THEN ChiseFrom(files[1], 1, ids_data)
    ELSE ids_data

\* files holds, in the order of ids_files, the lines of each file that exists
RECURSIVE parse_chise_ids(_, _, _)
parse_chise_ids(files, f, ids_data) ==
    IF f > Len(files) THEN ids_data
    ELSE parse_chise_ids(files, f + 1, ChiseFrom(files[f], 1, ids_data))

RECURSIVE AppendEach(_, _, _, _)
AppendEach(components, j, char, appears_in) ==
    IF j > Len(components) THEN appears_in
    ELSE AppendEach(components, j + 1, char,
             DictSet(appears_in, components[j],
                     Append(DictGet(appears_in, components[j], <<>>), char)))

RECURSIVE AppearsInFrom(_, _, _)
AppearsInFrom(ids_data, i, appears_in) ==
    IF i > Len(ids_data) THEN appears_in
    ELSE AppearsInFrom(ids_data, i + 1,
             AppendEach(ids_data[i][2].components, 1, ids_data[i][1], appears_in))

\* a bug: the index is built from every ideograph of the descriptor, the
\* decomposed character included
build_appears_in_FromIds(ids_data) ==
    AppearsInFrom([i \in 1..Len(ids_data) |->
                      <<ids_data[i][1],
                        [ids |-> ids_data[i][2].ids,
                         components |-> ExtractComponents(ids_data[i][2].ids, 0)]>>],
                  1, <<>>)

build_appears_in(ids_data) == AppearsInFrom(ids_data, 1, <<>>)

(***************************************************************************)
(* build_radicals_json                                                     *)
(***************************************************************************)
\* the keys of KANGXI_RADICALS
KANGXI_RADICALS == 1..214

\* the keys of radicals: str(num) for every num of KANGXI_RADICALS
RadicalKeys == {ToString(num) : num \in KANGXI_RADICALS}

\* radicals maps every key of RadicalKeys to a record holding a member list.
\* The model stores the records whose member list is not empty: a function
\* on the keys that have members.  Members is the member list of any key.
Members(radicals, key) ==
    IF key \in DOMAIN radicals THEN radicals[key].characters ELSE <<>>

\* `for num, ... in KANGXI_RADICALS.items(): radicals[str(num)] = {...}`:
\* every member list empty
SeedRadicals == [key \in {} |-> [characters |-> <<>>]]

\* word_freq.get(w, 999999)
UnrankedSortKey == 999999

\* the [:30] of the example words
WordLimit == 30

RECURSIVE SeqLess(_, _)
\* Python's < on strings (sequences of code units) and on tuples of integers
SeqLess(a, b) ==
    IF b = <<>> THEN FALSE
    ELSE IF a = <<>> THEN TRUE
    ELSE IF a[1] # b[1] THEN a[1] < b[1]
    ELSE SeqLess(Tail(a), Tail(b))

RECURSIVE InsertStable(_, _)
\* the <<key, item>> pair x inserted into the sorted list after every pair
\* whose key is not greater
InsertStable(sorted, x) ==
    IF sorted = <<>> THEN <<x>>
    ELSE IF SeqLess(x[1], sorted[1][1]) THEN <<x>> \o sorted
    ELSE <<sorted[1]>> \o InsertStable(Tail(sorted), x)

RECURSIVE SortPairs(_, _, _)
SortPairs(pairs, i, acc) ==
    IF i > Len(pairs) THEN [k \in 1..Len(acc) |-> acc[k][2]]
    ELSE SortPairs(pairs, i + 1, InsertStable(acc, pairs[i]))

\* sorted(list, key=...) and list.sort(key=...): a stable sort
\* keys[k] is the key of list[k]
Sorted(list, keys) ==
    SortPairs([k \in 1..Len(list) |-> <<keys[k], list[k]>>], 1, <<>>)

Take(list, n) == SubSeq(list, 1, IF Len(list) < n THEN Len(list) ELSE n)

\* a bug: a word without a rank sorts as rank 0, before the ranked words
WordKey_Zero(word_freq, w) == <<DictGet(word_freq, w, 0)>> \o w

\* key=lambda w: (word_freq.get(w, 999999), w)
WordKey(word_freq, w) == <<DictGet(word_freq, w, UnrankedSortKey)>> \o w

\* `sorted(char_words, key=...)[:30]`
ExampleWords(cedict, word_freq, char) ==
    LET char_words == DictGet(cedict.by_char, char, <<>>)
    IN  Take(Sorted(char_words,
                    [k \in 1..Len(char_words) |-> WordKey(word_freq, char_words[k])]),
             WordLimit)

\* char_data of the main pass
MainRecord(cp, rs, in) ==
    LET char == codepoint_to_char(cp)
        char_readings == DictGet(in.readings, cp, <<>>)
        ids_info == DictGet(in.ids_data, char, [ids |-> <<>>, components |-> <<>>])
    IN  [radical |-> ToString(rs.radical),
         strokes |-> rs.strokes,
         pinyin |-> DictGet(char_readings, "pinyin", ""),
         definition |-> DictGet(char_readings, "definition", ""),
         gradeLevel |-> DictGet(in.grade_data, cp, [gradeLevel |-> 0]).gradeLevel,
         charFrequency |-> DictGet(in.char_freq, char, 0),
         ids |-> ids_info.ids,
         components |-> ids_info.components,
         words |-> ExampleWords(in.cedict, in.word_freq, char),
         appearsIn |-> DictGet(in.appears_in, char, <<>>),
         traditional |-> DictFind(in.simp_to_trad, char),
         simplified |-> DictFind(in.trad_to_simp, char)]

\* `radicals[str(radical_num)]["characters"].append(char)`
AppendMember(radicals, key, char) ==
    [k \in DOMAIN radicals \cup {key} |->
        [characters |-> IF k = key THEN Append(Members(radicals, k), char)
                        ELSE Members(radicals, k)]]

RECURSIVE MainPass(_, _, _, _)
\* `for codepoint, rs in radical_data.items()`; in is the inputs of
\* build_radicals_json, acc the pair <<radicals, characters>>
MainPass(in, i, radicals, characters) ==
    IF i > Len(in.radical_data) THEN Returned(<<radicals, characters>>)
    ELSE LET cp == in.radical_data[i][1]
             rs == in.radical_data[i][2]
         IN  IF rs.radical \notin KANGXI_RADICALS
             THEN MainPass(in, i + 1, radicals, characters)
             ELSE IF CodepointRaises(cp) THEN Raised("ValueError")
             ELSE IF ~DictHas(DictGet(in.readings, cp, <<>>), "definition")
             THEN MainPass(in, i + 1, radicals, characters)
             ELSE MainPass(in, i + 1,
                      AppendMember(radicals, ToString(rs.radical), codepoint_to_char(cp)),
                      DictSet(characters, codepoint_to_char(cp),
                              MainRecord(cp, rs, in)))

\* the key of the member sort
MemberKey(characters, c) ==
    LET grade == DictGet(characters, c, <<>>).gradeLevel
    IN  <<IF grade > 0 THEN 0 ELSE 1,
          IF grade > 0 THEN grade ELSE 99,
          DictGet(characters, c, <<>>).strokes>>

\* `radical["characters"].sort(key=...)` for every radical
SortMembers(radicals, characters) ==
    [key \in DOMAIN radicals |->
        [characters |->
            Sorted(radicals[key].characters,
                   [k \in 1..Len(radicals[key].characters) |->
                       MemberKey(characters, radicals[key].characters[k])])]]

\* all_components: the components of the records that are not records
AllComponents(characters) ==
    {comp \in UNION {Elems(characters[i][2].components) : i \in 1..Len(characters)} :
        ~DictHas(characters, comp)}

\* the record of a promoted component
ComponentRecord(comp, in) ==
    LET comp_codepoint == FormatCodepoint(comp)
        comp_readings == DictGet(in.readings, comp_codepoint, <<>>)
        comp_radical == DictGet(in.radical_data, comp_codepoint, [radical |-> 0, strokes |-> 0])
        ids_info == DictGet(in.ids_data, comp, [ids |-> <<>>, components |-> <<>>])
    IN  [radical |-> ToString(comp_radical.radical),
         strokes |-> comp_radical.strokes,
         pinyin |-> DictGet(comp_readings, "pinyin", ""),
         definition |-> DictGet(comp_readings, "definition", "component"),
         gradeLevel |-> 0,
         charFrequency |-> DictGet(in.char_freq, comp, 0),
         ids |-> ids_info.ids,
         components |-> ids_info.components,
         words |-> <<>>,
         appearsIn |-> DictGet(in.appears_in, comp, <<>>),
         traditional |-> DictFind(in.simp_to_trad, comp),
         simplified |-> DictFind(in.trad_to_simp, comp)]

\* a bug: every component is promoted, with or without a reading
HasReading_Always(comp, readings) == TRUE

\* `if comp_readings.get("pinyin")`
HasReading(comp, readings) ==
    DictGet(DictGet(readings, FormatCodepoint(comp), <<>>), "pinyin", "") # ""

RECURSIVE Promote(_, _, _, _)
\* `for comp in all_components`, visited in the order the set yields them
Promote(order, j, in, characters) ==
    IF j > Len(order) THEN characters
    ELSE Promote(order, j + 1, in,
             IF HasReading(order[j], in.readings)
             THEN DictSet(characters, order[j], ComponentRecord(order[j], in))
             ELSE characters)

\* a bug: the grade is inherited from the simplified counterpart
InheritGrade_FromSimplified(char_data, characters) ==
    IF char_data.gradeLevel = 0 /\ char_data.simplified # None
       /\ DictHas(characters, char_data.simplified[1])
       /\ DictGet(characters, char_data.simplified[1], <<>>).gradeLevel > 0
    THEN [char_data EXCEPT !.gradeLevel =
              DictGet(characters, char_data.simplified[1], <<>>).gradeLevel]
    ELSE char_data

\* the grade a record inherits from its traditional counterpart
InheritGrade(char_data, characters) ==
    IF char_data.gradeLevel = 0 /\ char_data.traditional # None
       /\ DictHas(characters, char_data.traditional[1])
       /\ DictGet(characters, char_data.traditional[1], <<>>).gradeLevel > 0
    THEN [char_data EXCEPT !.gradeLevel =
              DictGet(characters, char_data.traditional[1], <<>>).gradeLevel]
    ELSE char_data

\* a bug: the frequency of the simplified counterpart replaces a frequency
\* the record already has
InheritFrequency_Overwrite(char_data, characters) ==
    IF char_data.simplified # None
       /\ DictHas(characters, char_data.simplified[1])
       /\ DictGet(characters, char_data.simplified[1], <<>>).charFrequency > 0
    THEN [char_data EXCEPT !.charFrequency =
              DictGet(characters, char_data.simplified[1], <<>>).charFrequency]
    ELSE char_data

\* the frequency a record inherits from its simplified counterpart
InheritFrequency(char_data, characters) ==
    IF char_data.charFrequency = 0 /\ char_data.simplified # None
       /\ DictHas(characters, char_data.simplified[1])
       /\ DictGet(characters, char_data.simplified[1], <<>>).charFrequency > 0
    THEN [char_data EXCEPT !.charFrequency =
              DictGet(characters, char_data.simplified[1], <<>>).charFrequency]
    ELSE char_data

RECURSIVE Inherit(_, _)
\* `for char, char_data in characters.items()`, updating in place
Inherit(characters, i) ==
    IF i > Len(characters) THEN characters
    ELSE LET graded == InheritGrade(characters[i][2], characters)
             withGrade == [characters EXCEPT ![i] = <<characters[i][1], graded>>]
             ranked == InheritFrequency(graded, withGrade)
         IN  Inherit([characters EXCEPT ![i] = <<characters[i][1], ranked>>], i + 1)

\* a bug: the example words of the first record only
ReferencedWords_First(characters) ==
    UNION {Elems(characters[i][2].words) : i \in 1..(IF characters = <<>> THEN 0 ELSE 1)}

\* referenced_words
ReferencedWords(characters) ==
    UNION {Elems(characters[i][2].words) : i \in 1..Len(characters)}

\* a bug: the fallback of the sort key used for the emitted frequency
WordFrequency_SortKey(word_freq, word) == DictGet(word_freq, word, UnrankedSortKey)

\* `"frequency": word_freq.get(word, 0)`
WordFrequency(word_freq, word) == DictGet(word_freq, word, 0)

RECURSIVE WordsSubset(_, _, _, _, _)
\* `for word in referenced_words`, visited in the order the set yields them
WordsSubset(order, j, cedict, word_freq, words_subset) ==
    IF j > Len(order) THEN words_subset
    ELSE WordsSubset(order, j + 1, cedict, word_freq,
             IF DictHas(cedict.words, order[j])
             THEN DictSet(words_subset, order[j],
                      [traditional |-> DictGet(cedict.words, order[j], <<>>).traditional,
                       pinyin |-> DictGet(cedict.words, order[j], <<>>).pinyin,
                       definition |-> DictGet(cedict.words, order[j], <<>>).definition,
                       frequency |-> WordFrequency(word_freq, order[j])])
             ELSE words_subset)

RECURSIVE Orders(_)
\* the orders in which iterating a set can yield its elements
Orders(S) ==
    IF S = {} THEN {<<>>}
    ELSE UNION {{<<x>> \o rest : rest \in Orders(S \ {x})} : x \in S}

\* the main pass and the member sort: raises, or returns <<radicals, characters>>
FirstPass(in) ==
    LET main == MainPass(in, 1, SeedRadicals, <<>>)
    IN  IF main.exc # "" THEN main
        ELSE Returned(<<SortMembers(main.val[1], main.val[2]), main.val[2]>>)

\* the rest of build_radicals_json, given the orders of the two set iterations
SecondPass(in, first, compOrder) == Inherit(Promote(compOrder, 1, in, first[2]), 1)

Dataset(in, first, characters, wordOrder) ==
    [radicals |-> first[1],
     characters |-> characters,
     words |-> WordsSubset(wordOrder, 1, in.cedict, in.word_freq, <<>>)]

(***************************************************************************)
(* main: one action per step.  The content of a source is fixed when the   *)
(* step that reads it runs: the step adds its edits to the corpus.         *)
(***************************************************************************)
VARIABLES
    pc,            \* the step main is about to take, "done" or "aborted"
    edits,         \* how the sources read so far differ from the sample corpus
    exc,           \* the exception that ended the run, "" if none
    readings, radical_data, grade_data, cedict, ids_data, appears_in,
    word_freq, char_freq, variants,      \* the locals of main
    result,        \* the value of build_radicals_json, None before it returns
    output         \* the content of data/radicals.json, None until written

\* the state of the backend: the arguments and the value of
\* cluster_into_chapters, the users table, the requests being handled, the
\* responses sent and the behaviour of the installed bcrypt
VARIABLES
    entries, words_per_chapter, chapters,
    users, requests, responses, bcrypt_truncates

backend == <<entries, words_per_chapter, chapters, users, requests, responses,
             bcrypt_truncates>>

\* the locals of main
pipeline == <<pc, edits, exc, readings, radical_data, grade_data, cedict, ids_data,
              appears_in, word_freq, char_freq, variants, result, output>>

vars == <<pc, edits, exc, readings, radical_data, grade_data, cedict, ids_data,
          appears_in, word_freq, char_freq, variants, result, output,
          entries, words_per_chapter, chapters, users, requests, responses,
          bcrypt_truncates>>

\* the backend has served nothing
NoBackend ==
    /\ entries = <<>>
    /\ words_per_chapter = 0
    /\ chapters = None
    /\ users = <<>>
    /\ requests = <<>>
    /\ responses = <<>>
    /\ bcrypt_truncates = FALSE

NoCedict == [words |-> <<>>, by_char |-> <<>>]

\* main has not started
InitMain ==
    /\ pc = "load_unihan"
    /\ edits = {}
    /\ exc = ""
    /\ readings = <<>>
    /\ radical_data = <<>>
    /\ grade_data = <<>>
    /\ cedict = NoCedict
    /\ ids_data = <<>>
    /\ appears_in = <<>>
    /\ word_freq = <<>>
    /\ char_freq = <<>>
    /\ variants = <<<<>>, <<>>>>
    /\ result = None
    /\ output = None

Init == InitMain /\ NoBackend

\* the corpora a step can find: the edits so far and at most the remaining
\* number of edits to what the step reads
Found(touched) ==
    {edits \cup e : e \in SubsetsUpTo(touched, MaxEdits - Cardinality(edits))}

\* an uncaught exception ends the run
Abort(e) ==
    /\ pc' = "aborted"
    /\ exc' = e

\* `with open(UNIHAN_PATH, "rb") as f: zip_data = f.read()`
LoadUnihan ==
    /\ pc = "load_unihan"
    /\ \E ed \in Found(FaultIds({"unihan.zip missing"})) :
        /\ edits' = ed
        /\ IF Fault("unihan.zip missing", ed)
           THEN Abort("FileNotFoundError")
           ELSE pc' = "readings" /\ exc' = exc
    /\ UNCHANGED <<readings, radical_data, grade_data, cedict, ids_data, appears_in,
                   word_freq, char_freq, variants, result, output>>
    /\ UNCHANGED backend

\* `readings = parse_unihan_readings(zip_data)`
ParseReadings ==
    /\ pc = "readings"
    /\ \E ed \in Found(EditsOf("Unihan_Readings.txt", ReadingsPool)
                       \cup FaultIds({"Unihan_Readings.txt missing"})) :
        LET parsed == parse_unihan_readings(FileLines(ReadingsPool, "Unihan_Readings.txt", ed))
        IN  /\ edits' = ed
            /\ IF Fault("Unihan_Readings.txt missing", ed)
               THEN Abort("KeyError") /\ readings' = readings
               ELSE IF parsed.exc # ""
               THEN Abort(parsed.exc) /\ readings' = readings
               ELSE pc' = "radical_stroke" /\ exc' = exc /\ readings' = parsed.val
    /\ UNCHANGED <<radical_data, grade_data, cedict, ids_data, appears_in,
                   word_freq, char_freq, variants, result, output>>
    /\ UNCHANGED backend

\* `radical_data = parse_unihan_radical_stroke(zip_data)`
ParseRadicalStroke ==
    /\ pc = "radical_stroke"
    /\ \E ed \in Found(EditsOf("Unihan_IRGSources.txt", RadicalStrokePool)
                       \cup FaultIds({"Unihan_IRGSources.txt missing"})) :
        LET parsed == parse_unihan_radical_stroke(
                          FileLines(RadicalStrokePool, "Unihan_IRGSources.txt", ed))
        IN  /\ edits' = ed
            /\ IF Fault("Unihan_IRGSources.txt missing", ed)
               THEN Abort("KeyError") /\ radical_data' = radical_data
               ELSE IF parsed.exc # ""
               THEN Abort(parsed.exc) /\ radical_data' = radical_data
               ELSE pc' = "grade_level" /\ exc' = exc /\ radical_data' = parsed.val
    /\ UNCHANGED <<readings, grade_data, cedict, ids_data, appears_in,
                   word_freq, char_freq, variants, result, output>>
    /\ UNCHANGED backend

\* `grade_data = parse_unihan_grade_level(zip_data)`
ParseGradeLevel ==
    /\ pc = "grade_level"
    /\ \E ed \in Found(EditsOf("Unihan_DictionaryLikeData.txt", GradePool)
                       \cup FaultIds({"Unihan_DictionaryLikeData.txt missing"})) :
        LET parsed == parse_unihan_grade_level(
                          FileLines(GradePool, "Unihan_DictionaryLikeData.txt", ed))
        IN  /\ edits' = ed
            /\ IF Fault("Unihan_DictionaryLikeData.txt missing", ed)
               THEN Abort("KeyError") /\ grade_data' = grade_data
               ELSE pc' = "cedict" /\ exc' = exc /\ grade_data' = parsed.val
    /\ UNCHANGED <<readings, radical_data, cedict, ids_data, appears_in,
                   word_freq, char_freq, variants, result, output>>
    /\ UNCHANGED backend

\* a bug: a dictionary that cannot be opened is treated as empty
ParseCedict_Tolerant ==
    /\ pc = "cedict"
    /\ \E ed \in Found(EditsOf("cedict.txt", CedictPool) \cup FaultIds({"cedict.txt missing"})) :
        /\ edits' = ed
        /\ cedict' = IF Fault("cedict.txt missing", ed) THEN NoCedict
                      ELSE parse_cedict(FileLines(CedictPool, "cedict.txt", ed))
    /\ pc' = "chise_ids"
    /\ UNCHANGED <<exc, readings, radical_data, grade_data, ids_data, appears_in,
                   word_freq, char_freq, variants, result, output>>
    /\ UNCHANGED backend

\* `cedict = parse_cedict(CEDICT_PATH)`
ParseCedict ==
    /\ pc = "cedict"
    /\ \E ed \in Found(EditsOf("cedict.txt", CedictPool) \cup FaultIds({"cedict.txt missing"})) :
        /\ edits' = ed
        /\ IF Fault("cedict.txt missing", ed)
           THEN Abort("FileNotFoundError") /\ cedict' = cedict
           ELSE /\ pc' = "chise_ids"
                /\ exc' = exc
                /\ cedict' = parse_cedict(FileLines(CedictPool, "cedict.txt", ed))
    /\ UNCHANGED <<readings, radical_data, grade_data, ids_data, appears_in,
                   word_freq, char_freq, variants, result, output>>
    /\ UNCHANGED backend

\* the IDS files that exist, in the order of ids_files
ExistingIdsFiles(ed) ==
    (IF Fault("IDS-UCS-Basic.txt missing", ed) THEN <<>>
     ELSE <<FileLines(ChiseBasicPool, "IDS-UCS-Basic.txt", ed)>>)
    \o (IF Fault("IDS-UCS-Ext-A.txt missing", ed) THEN <<>>
        ELSE <<FileLines(ChiseExtAPool, "IDS-UCS-Ext-A.txt", ed)>>)

\* a file that exists and cannot be opened for reading
IdsFileUnreadable(ed) ==
    \/ Fault("IDS-UCS-Basic.txt unreadable", ed) /\ ~Fault("IDS-UCS-Basic.txt missing", ed)
    \/ Fault("IDS-UCS-Ext-A.txt unreadable", ed) /\ ~Fault("IDS-UCS-Ext-A.txt missing", ed)

\* a bug (of the code as it is meant): a missing IDS file is opened all the same
ParseChiseIds_Required ==
    /\ pc = "chise_ids"
    /\ \E ed \in Found(EditsOf("IDS-UCS-Basic.txt", ChiseBasicPool)
                       \cup EditsOf("IDS-UCS-Ext-A.txt", ChiseExtAPool)
                       \cup FaultIds({"IDS-UCS-Basic.txt missing", "IDS-UCS-Basic.txt unreadable",
                                      "IDS-UCS-Ext-A.txt missing", "IDS-UCS-Ext-A.txt unreadable"})) :
        /\ edits' = ed
        /\ IF Fault("IDS-UCS-Basic.txt missing", ed) \/ Fault("IDS-UCS-Ext-A.txt missing", ed)
           THEN Abort("FileNotFoundError") /\ ids_data' = ids_data
           ELSE IF IdsFileUnreadable(ed)
           THEN Abort("PermissionError") /\ ids_data' = ids_data
           ELSE /\ pc' = "appears_in"
                /\ exc' = exc
                /\ ids_data' = parse_chise_ids(ExistingIdsFiles(ed), 1, <<>>)
    /\ UNCHANGED <<readings, radical_data, grade_data, cedict, appears_in,
                   word_freq, char_freq, variants, result, output>>
    /\ UNCHANGED backend

\* `ids_data = parse_chise_ids(CHISE_IDS_DIR)`
ParseChiseIds ==
    /\ pc = "chise_ids"
    /\ \E ed \in Found(EditsOf("IDS-UCS-Basic.txt", ChiseBasicPool)
                       \cup EditsOf("IDS-UCS-Ext-A.txt", ChiseExtAPool)
                       \cup FaultIds({"IDS-UCS-Basic.txt missing", "IDS-UCS-Basic.txt unreadable",
                                      "IDS-UCS-Ext-A.txt missing", "IDS-UCS-Ext-A.txt unreadable"})) :
        /\ edits' = ed
        /\ IF IdsFileUnreadable(ed)
           THEN Abort("PermissionError") /\ ids_data' = ids_data
           ELSE /\ pc' = "appears_in"
                /\ exc' = exc
                /\ ids_data' = parse_chise_ids(ExistingIdsFiles(ed), 1, <<>>)
    /\ UNCHANGED <<readings, radical_data, grade_data, cedict, appears_in,
                   word_freq, char_freq, variants, result, output>>
    /\ UNCHANGED backend

\* `appears_in = build_appears_in(ids_data)`
BuildAppearsIn ==
    /\ pc = "appears_in"
    /\ pc' = "subtlex"
    /\ appears_in' = build_appears_in(ids_data)
    /\ UNCHANGED <<edits, exc, readings, radical_data, grade_data, cedict, ids_data,
                   word_freq, char_freq, variants, result, output>>
    /\ UNCHANGED backend

\* `if SUBTLEX_PATH.exists(): word_freq = parse_subtlex(...) else: word_freq = {}`
ParseSubtlex ==
    /\ pc = "subtlex"
    /\ \E ed \in Found(EditsOf("SUBTLEX-CH-WF.xlsx", WordFreqPool)
                       \cup FaultIds({"SUBTLEX-CH-WF.xlsx missing", "openpyxl missing"})) :
        /\ edits' = ed
        /\ word_freq' =
               IF Fault("SUBTLEX-CH-WF.xlsx missing", ed) \/ Fault("openpyxl missing", ed)
               THEN <<>>
               ELSE parse_subtlex(FileLines(WordFreqPool, "SUBTLEX-CH-WF.xlsx", ed))
    /\ pc' = "subtlex_char"
    /\ UNCHANGED <<exc, readings, radical_data, grade_data, cedict, ids_data, appears_in,
                   char_freq, variants, result, output>>
    /\ UNCHANGED backend

\* `if SUBTLEX_CHR_PATH.exists(): char_freq = parse_subtlex_char(...) else: char_freq = {}`
ParseSubtlexChar ==
    /\ pc = "subtlex_char"
    /\ \E ed \in Found(EditsOf("SUBTLEX-CH-CHR.xlsx", CharFreqPool)
                       \cup FaultIds({"SUBTLEX-CH-CHR.xlsx missing"})) :
        /\ edits' = ed
        /\ char_freq' =
               IF Fault("SUBTLEX-CH-CHR.xlsx missing", ed) \/ Fault("openpyxl missing", ed)
               THEN <<>>
               ELSE parse_subtlex_char(FileLines(CharFreqPool, "SUBTLEX-CH-CHR.xlsx", ed))
    /\ pc' = "variants"
    /\ UNCHANGED <<exc, readings, radical_data, grade_data, cedict, ids_data, appears_in,
                   word_freq, variants, result, output>>
    /\ UNCHANGED backend

\* `simp_to_trad, trad_to_simp = parse_variants(zip_data)`
ParseVariants ==
    /\ pc = "variants"
    /\ \E ed \in Found(EditsOf("Unihan_Variants.txt", VariantsPool)
                       \cup FaultIds({"Unihan_Variants.txt missing"})) :
        LET parsed == parse_variants(FileLines(VariantsPool, "Unihan_Variants.txt", ed))
        IN  /\ edits' = ed
            /\ IF Fault("Unihan_Variants.txt missing", ed)
               THEN Abort("KeyError") /\ variants' = variants
               ELSE IF parsed.exc # ""
               THEN Abort(parsed.exc) /\ variants' = variants
               ELSE pc' = "build" /\ exc' = exc /\ variants' = parsed.val
    /\ UNCHANGED <<readings, radical_data, grade_data, cedict, ids_data, appears_in,
                   word_freq, char_freq, result, output>>
    /\ UNCHANGED backend

\* the arguments main passes to build_radicals_json
BuildInputs ==
    [readings |-> readings, radical_data |-> radical_data, grade_data |-> grade_data,
     cedict |-> cedict, ids_data |-> ids_data, appears_in |-> appears_in,
     word_freq |-> word_freq, char_freq |-> char_freq,
     simp_to_trad |-> variants[1], trad_to_simp |-> variants[2]]

\* the values build_radicals_json can return on the inputs: one for each order
\* in which the sets all_components and referenced_words yield their elements
Datasets(in, first) ==
    UNION {LET characters == SecondPass(in, first, compOrder)
           IN  {Dataset(in, first, characters, wordOrder) :
                    wordOrder \in Orders(ReferencedWords(characters))} :
           compOrder \in Orders(AllComponents(first[2]))}

\* `result = build_radicals_json(...)`
Build ==
    /\ pc = "build"
    /\ LET first == FirstPass(BuildInputs)
       IN  IF first.exc # ""
           THEN Abort(first.exc) /\ result' = result
           ELSE /\ pc' = "write"
                /\ exc' = exc
                /\ \E dataset \in Datasets(BuildInputs, first.val) : result' = Some(dataset)
    /\ UNCHANGED <<edits, readings, radical_data, grade_data, cedict, ids_data, appears_in,
                   word_freq, char_freq, variants, output>>
    /\ UNCHANGED backend

\* `with open(output_path, "w") as f: json.dump(result, f, ...)`
WriteOutput ==
    /\ pc = "write"
    /\ pc' = "done"
    /\ output' = result
    /\ UNCHANGED <<edits, exc, readings, radical_data, grade_data, cedict, ids_data,
                   appears_in, word_freq, char_freq, variants, result>>
    /\ UNCHANGED backend

\* main run once more on the same sources: every extractor returns what it
\* returned before, build_radicals_json iterates its sets in a fresh order
\* (str hashes are randomized per process), and the file is rewritten
RunAgain ==
    /\ pc = "done"
    /\ \E dataset \in Datasets(BuildInputs, FirstPass(BuildInputs).val) :
        /\ result' = Some(dataset)
        /\ output' = Some(dataset)
    /\ UNCHANGED <<pc, edits, exc, readings, radical_data, grade_data, cedict, ids_data,
                   appears_in, word_freq, char_freq, variants>>
    /\ UNCHANGED backend

Next ==
    \/ LoadUnihan
    \/ ParseReadings
    \/ ParseRadicalStroke
    \/ ParseGradeLevel
    \/ ParseCedict
    \/ ParseChiseIds
    \/ BuildAppearsIn
    \/ ParseSubtlex
    \/ ParseSubtlexChar
    \/ ParseVariants
    \/ Build
    \/ WriteOutput
    \/ RunAgain

Spec == Init /\ [][Next]_vars

(***************************************************************************)
(* Properties                                                              *)
(***************************************************************************)
\* the ideographs of the sample corpus
SampleChars == {An, Mian, Nv, ChuanS, ChuanT}

\* build_radicals_json has returned
Emitted == result # None

EmittedCharacters == result[1].characters

EmittedWords == result[1].words

EmittedRadicals == result[1].radicals

Record(c) == DictGet(EmittedCharacters, c, <<>>)

\* the index of the last line of the file that satisfies P, 0 if none does
LastIndex(lines, P(_)) ==
    IF \E i \in 1..Len(lines) : P(lines[i])
    THEN CHOOSE i \in 1..Len(lines) :
             P(lines[i]) /\ \A j \in (i + 1)..Len(lines) : ~P(lines[j])
    ELSE 0

ReadingsFile == FileLines(ReadingsPool, "Unihan_Readings.txt", edits)

RadicalStrokeFile == FileLines(RadicalStrokePool, "Unihan_IRGSources.txt", edits)

\* C1: in the dataset returned by build_radicals_json, every character listed
\* in a radical's member list is a key of characters, and every key of
\* characters whose radical is one of the 214 known ordinals is listed in the
\* member list of that radical.  The code violates the second half: a promoted
\* component carries its radical and is appended to no member list.
C1_RoundTrip ==
    Emitted =>
        /\ \A key \in RadicalKeys :
               \A c \in Elems(Members(EmittedRadicals, key)) : DictHas(EmittedCharacters, c)
        /\ \A c \in KeySet(EmittedCharacters) :
               Record(c).radical \in RadicalKeys
                   => InList(c, Members(EmittedRadicals, Record(c).radical))

\* C2: a second run of the pipeline on the same sources leaves the output file
\* as the first run wrote it, key order included.  The code violates it: the
\* sets all_components and referenced_words are iterated in hash order.
C2_Idempotent == [][pc = "done" /\ pc' = "done" => output' = output]_vars

\* the grade-level mapping has an entry for character c, under any spelling
\* of its code point
HasGradeEntry(c) ==
    \E cp \in KeySet(grade_data) : ~CodepointRaises(cp) /\ codepoint_to_char(cp) = c

\* C3: every emitted record has gradeLevel 0, or its character has an entry in
\* the grade-level mapping, or its traditional counterpart is a key of
\* characters whose emitted gradeLevel is not 0.
C3_EnrichmentInvariant ==
    Emitted =>
        \A c \in KeySet(EmittedCharacters) :
            \/ Record(c).gradeLevel = 0
            \/ HasGradeEntry(c)
            \/ /\ Record(c).traditional # None
               /\ DictHas(EmittedCharacters, Record(c).traditional[1])
               /\ Record(Record(c).traditional[1]).gradeLevel # 0

\* C3 witness: a record whose grade was inherited from its traditional
\* counterpart, its own character having no grade-level entry.
C3_Witness ==
    /\ Emitted
    /\ \E c \in KeySet(EmittedCharacters) :
           /\ Record(c).gradeLevel # 0
           /\ ~HasGradeEntry(c)

\* C4: no emitted record lists its own character among its components,
\* whatever the descriptor was.
C4_NoSelfComponent ==
    Emitted => \A c \in KeySet(EmittedCharacters) : ~InList(c, Record(c).components)

\* C4 witness: an emitted record with components whose descriptor mentions the
\* character itself.
C4_Witness ==
    /\ Emitted
    /\ \E c \in KeySet(EmittedCharacters) :
           /\ InList(Ch(c), Record(c).ids)
           /\ Record(c).components # <<>>

\* the archive, one of its property files or the dictionary cannot be opened
RequiredSourceUnavailable ==
    \/ Fault("unihan.zip missing", edits)
    \/ Fault("Unihan_Readings.txt missing", edits)
    \/ Fault("Unihan_IRGSources.txt missing", edits)
    \/ Fault("Unihan_DictionaryLikeData.txt missing", edits)
    \/ Fault("Unihan_Variants.txt missing", edits)
    \/ Fault("cedict.txt missing", edits)

\* C5: when the archive, a property file inside it or the dictionary cannot be
\* opened the run aborts with nothing written, and the output is written only
\* after every extractor and the fusion stage have completed.
C5_AbortBeforeWrite ==
    /\ RequiredSourceUnavailable =>
           pc = "aborted" /\ exc \in {"FileNotFoundError", "KeyError"} /\ output = None
    /\ output # None => pc = "done" /\ result # None /\ exc = ""

\* C5 witness: the dictionary cannot be opened after the archive was parsed;
\* the run has aborted and nothing is written.
C5_Witness ==
    /\ Fault("cedict.txt missing", edits)
    /\ pc = "aborted"
    /\ readings # <<>>
    /\ output = None

\* an IDS file does not exist, or exists and cannot be read
IdsFileMissing ==
    Fault("IDS-UCS-Basic.txt missing", edits) \/ Fault("IDS-UCS-Ext-A.txt missing", edits)

\* C6 as stated: when the decomposition directory or one of its two files
\* cannot be opened the run aborts and no output is written.  The code skips a
\* file that does not exist.
C6_DecompositionRequired ==
    (IdsFileMissing \/ IdsFileUnreadable(edits)) => pc # "done" /\ output = None

\* the characters an IDS file has a line for
IdsFileChars(lines) == {lines[i].char : i \in {j \in 1..Len(lines) : IsData(lines[j])}}

\* C6 amended: an IDS file that does not exist is skipped, the run goes on
\* with the decompositions of the files that do exist (none when both are
\* missing) and is never ended by the missing file; a file that exists and
\* cannot be read ends the run with nothing written.
C6_MissingIdsFileSkipped ==
    /\ IdsFileUnreadable(edits) =>
           pc = "aborted" /\ exc = "PermissionError" /\ output = None
    /\ exc = "FileNotFoundError" =>
           Fault("unihan.zip missing", edits) \/ Fault("cedict.txt missing", edits)
    /\ (Fault("IDS-UCS-Basic.txt missing", edits) /\ Fault("IDS-UCS-Ext-A.txt missing", edits)
            /\ pc # "aborted") => ids_data = <<>>
    /\ (Fault("IDS-UCS-Basic.txt missing", edits) /\ pc # "aborted") =>
           KeySet(ids_data) \subseteq
               IdsFileChars(FileLines(ChiseExtAPool, "IDS-UCS-Ext-A.txt", edits))

\* C6 witness: the basic file is missing, the run has completed and written
\* its output with the decompositions of the extension file.
C6_Witness ==
    /\ Fault("IDS-UCS-Basic.txt missing", edits)
    /\ pc = "done"
    /\ output # None
    /\ ids_data # <<>>

\* C7: a missing frequency table never ends the run; every emitted
\* charFrequency is 0 when the character table is missing and every emitted
\* word frequency is 0 when the word table is missing.
C7_FrequencyOptional ==
    /\ (Fault("SUBTLEX-CH-WF.xlsx missing", edits) \/ Fault("SUBTLEX-CH-CHR.xlsx missing", edits))
           => exc # "FileNotFoundError" /\ pc \notin {"subtlex", "load_unihan"}
    /\ (Fault("SUBTLEX-CH-WF.xlsx missing", edits) /\ output # None) =>
           \A i \in 1..Len(output[1].words) : output[1].words[i][2].frequency = 0
    /\ (Fault("SUBTLEX-CH-CHR.xlsx missing", edits) /\ output # None) =>
           \A i \in 1..Len(output[1].characters) :
               output[1].characters[i][2].charFrequency = 0

\* C7 witness: both tables are missing and the output, with characters and
\* words in it, is written.
C7_Witness ==
    /\ Fault("SUBTLEX-CH-WF.xlsx missing", edits)
    /\ Fault("SUBTLEX-CH-CHR.xlsx missing", edits)
    /\ pc = "done"
    /\ output # None
    /\ output[1].words # <<>>
    /\ output[1].characters # <<>>

\* C8: a malformed record never raises out of its extractor or the fusion
\* stage.  The code violates it: int(..., 16) on a code-point identifier that
\* is not hexadecimal and split()[0] on a blank value are not guarded.
C8_MalformedRecordSkipped == exc \notin {"ValueError", "IndexError"}

\* the spellings of the code points of the sample corpus
SampleIdentifiers == {Cp(c) : c \in SampleChars} \cup {LowerCp(c) : c \in SampleChars}

\* a kRSUnicode line under identifier cp whose first token is two integers
IsRadicalStrokeOf(line, cp) ==
    /\ IsData(line) /\ line.cp = cp /\ line.field = "kRSUnicode"
    /\ line.value # <<>>
    /\ Len(line.value[1]) = 2 /\ line.value[1][1].digits /\ line.value[1][2].digits

IsFieldOf(line, cp, field) == IsData(line) /\ line.cp = cp /\ line.field = field

\* the lower-case form of the readings of the sample corpus
C9_LowerCase == [token \in {"AN1", "an4", "mian2", "nu3", "chuan2"} |->
                    IF token = "AN1" THEN "an1" ELSE token]

\* the archive gives the character of identifier cp a radical/stroke record,
\* a reading and a definition, the radical being one of the 214; the
\* radical/stroke file names the character by this identifier only
C9_Attested(cp) ==
    LET rs == LastIndex(RadicalStrokeFile, LAMBDA l : IsRadicalStrokeOf(l, cp))
    IN  /\ rs > 0
        /\ RadicalStrokeFile[rs].value[1][1].n \in 1..214
        /\ \E i \in 1..Len(ReadingsFile) : IsFieldOf(ReadingsFile[i], cp, "kMandarin")
        /\ \E i \in 1..Len(ReadingsFile) : IsFieldOf(ReadingsFile[i], cp, "kDefinition")
        /\ \A i \in 1..Len(RadicalStrokeFile) :
               (IsData(RadicalStrokeFile[i]) /\ RadicalStrokeFile[i].cp.wellformed
                    /\ RadicalStrokeFile[i].cp.hex = cp.hex)
                   => RadicalStrokeFile[i].cp = cp

CedictFile == FileLines(CedictPool, "cedict.txt", edits)

\* a dictionary line of the fixed shape whose simplified form is w
IsEntryOf(line, w) == IsData(line) /\ line.shape /\ line.simplified = w

\* C11: every emitted word carries the traditional form, the pronunciation
\* and the first definition segment of the last well-formed dictionary line
\* whose simplified form is that word.
C11_LastEntryWins ==
    Emitted =>
        \A i \in 1..Len(EmittedWords) :
            LET w == EmittedWords[i][1]
                last == LastIndex(CedictFile, LAMBDA l : IsEntryOf(l, w))
            IN  /\ last > 0
                /\ EmittedWords[i][2].traditional = CedictFile[last].traditional
                /\ EmittedWords[i][2].pinyin = CedictFile[last].pinyin
                /\ EmittedWords[i][2].definition = CedictFile[last].definitions[1]

\* C11 witness: an emitted word has two dictionary lines that differ in the
\* pronunciation, the last with several definition segments.
C11_Witness ==
    /\ Emitted
    /\ \E i \in 1..Len(EmittedWords) :
           LET w == EmittedWords[i][1]
               last == LastIndex(CedictFile, LAMBDA l : IsEntryOf(l, w))
           IN  /\ last > 0
               /\ Len(CedictFile[last].definitions) > 1
               /\ \E j \in 1..(last - 1) :
                      /\ IsEntryOf(CedictFile[j], w)
                      /\ CedictFile[j].pinyin # CedictFile[last].pinyin

\* C12: the keys of the emitted words are the union of the example-word
\* lists of the emitted records: no other dictionary word is emitted, and
\* every example word has an entry.
C12_WordsAreExampleWords ==
    Emitted =>
        KeySet(EmittedWords) =
            UNION {Elems(Record(c).words) : c \in KeySet(EmittedCharacters)}

\* C12 witness: words are emitted while the dictionary holds a word that is
\* an example word of no record, and two records have example words.
C12_Witness ==
    /\ Emitted
    /\ EmittedWords # <<>>
    /\ \E w \in KeySet(cedict.words) : ~DictHas(EmittedWords, w)
    /\ \E a, b \in KeySet(EmittedCharacters) :
           a # b /\ Record(a).words # <<>> /\ Record(b).words # <<>>

VariantsFile == FileLines(VariantsPool, "Unihan_Variants.txt", edits)

\* parse_variants has returned
VariantsParsed == pc \in {"build", "write", "done"}

\* a line of the field for character c that lists a code point other than c
ListsOther(line, field, c) ==
    /\ IsData(line) /\ line.field = field /\ line.cp.wellformed /\ line.cp.hex = c
    /\ \E k \in 1..Len(line.value) : line.value[k].prefixed /\ line.value[k].cp.hex # c

\* the first listed code point of the line that is not c
FirstListedOther(line, c) ==
    LET k == CHOOSE k \in 1..Len(line.value) :
                 /\ line.value[k].prefixed /\ line.value[k].cp.hex # c
                 /\ \A j \in 1..(k - 1) :
                        ~(line.value[j].prefixed /\ line.value[j].cp.hex # c)
    IN  line.value[k].cp.hex

\* the mapping the lines of one field give: the characters with a line that
\* lists another code point, each with the first such code point of its last
\* such line
C13_Expected(mapping, field) ==
    /\ KeySet(mapping) =
           {c \in SampleChars :
               \E i \in 1..Len(VariantsFile) : ListsOther(VariantsFile[i], field, c)}
    /\ \A c \in KeySet(mapping) :
           /\ DictGet(mapping, c, c) # c
           /\ DictGet(mapping, c, c) =
                  FirstListedOther(
                      VariantsFile[LastIndex(VariantsFile,
                                             LAMBDA l : ListsOther(l, field, c))], c)

\* C13: in both mappings of parse_variants no character maps to itself; the
\* counterpart stored for a line is its first listed candidate that is not
\* the line's own character, and a line whose candidates are all the
\* character itself adds no entry.
C13_FirstOtherCandidate ==
    VariantsParsed =>
        /\ C13_Expected(variants[1], "kTraditionalVariant")
        /\ C13_Expected(variants[2], "kSimplifiedVariant")

\* C13 witness: a line lists the character itself before another candidate
\* and its character has an entry, and a line lists only the character itself.
C13_Witness ==
    /\ VariantsParsed
    /\ \E i \in 1..Len(VariantsFile) :
           /\ ListsOther(VariantsFile[i], "kTraditionalVariant", VariantsFile[i].cp.hex)
           /\ VariantsFile[i].value[1].prefixed
           /\ VariantsFile[i].value[1].cp.hex = VariantsFile[i].cp.hex
           /\ DictHas(variants[1], VariantsFile[i].cp.hex)
    /\ \E i \in 1..Len(VariantsFile) :
           /\ IsData(VariantsFile[i])
           /\ VariantsFile[i].field = "kSimplifiedVariant"
           /\ VariantsFile[i].value # <<>>
           /\ \A k \in 1..Len(VariantsFile[i].value) :
                  VariantsFile[i].value[k].cp = VariantsFile[i].cp

IdsBasicFile == FileLines(ChiseBasicPool, "IDS-UCS-Basic.txt", edits)

IdsExtAFile == FileLines(ChiseExtAPool, "IDS-UCS-Ext-A.txt", edits)

\* parse_chise_ids has returned
IdsParsed ==
    pc \in {"appears_in", "subtlex", "subtlex_char", "variants", "build", "write", "done"}

\* the line is a line for character c that gives a decomposition
Defines(line, c) == IsData(line) /\ line.char = c /\ ChiseLine(line, <<>>) # <<>>

\* C14: when both IDS files (both exist) have a line that gives a
\* decomposition of the same character, the decomposition stored for the
\* character is the one of the later file, IDS-UCS-Ext-A.txt.
C14_LaterFileWins ==
    (IdsParsed /\ ~IdsFileMissing) =>
        \A c \in SampleChars :
            LET inBasic == LastIndex(IdsBasicFile, LAMBDA l : Defines(l, c))
                inExtA == LastIndex(IdsExtAFile, LAMBDA l : Defines(l, c))
            IN  (inBasic > 0 /\ inExtA > 0) =>
                    /\ DictHas(ids_data, c)
                    /\ DictGet(ids_data, c, <<>>) = ChiseLine(IdsExtAFile[inExtA], <<>>)[1][2]

\* C14 witness: both files give a decomposition of a character, and the two
\* differ.
C14_Witness ==
    /\ IdsParsed /\ ~IdsFileMissing
    /\ \E c \in SampleChars :
           LET inBasic == LastIndex(IdsBasicFile, LAMBDA l : Defines(l, c))
               inExtA == LastIndex(IdsExtAFile, LAMBDA l : Defines(l, c))
           IN  /\ inBasic > 0 /\ inExtA > 0
               /\ ChiseLine(IdsBasicFile[inBasic], <<>>) # ChiseLine(IdsExtAFile[inExtA], <<>>)

\* the lines of the IDS files that exist
IdsLines ==
    (IF Fault("IDS-UCS-Basic.txt missing", edits) THEN <<>> ELSE IdsBasicFile)
    \o (IF Fault("IDS-UCS-Ext-A.txt missing", edits) THEN <<>> ELSE IdsExtAFile)

\* the descriptor of the line keeps a symbolic reference after the table
\* substitution and, the references stripped, has fewer than two characters
\* that are neither operators nor the character of the line
InsufficientlyDecomposed(line) ==
    /\ IsData(line)
    /\ \E k \in 1..Len(line.ids_raw) :
           line.ids_raw[k].t = "entity" /\ ~DictHas(CdpToUnicode, line.ids_raw[k].name)
    /\ Cardinality({k \in 1..Len(line.ids_raw) :
                       /\ line.ids_raw[k].t = "char"
                       /\ line.ids_raw[k].c \notin IdsOperators
                       /\ line.ids_raw[k].c # line.char}) < 2

\* C15: a record whose descriptor keeps symbolic references after the table
\* substitution is discarded when, the references stripped, fewer than two
\* characters remain that are neither operators nor the decomposed character:
\* the descriptor of such a line is not the one stored for its character.
\* The code violates it: it counts the decomposed character among the
\* characters that remain.
C15_InsufficientDiscarded ==
    IdsParsed =>
        \A i \in 1..Len(IdsLines) :
            InsufficientlyDecomposed(IdsLines[i]) =>
                \/ ~DictHas(ids_data, IdsLines[i].char)
                \/ DictGet(ids_data, IdsLines[i].char, <<>>).ids
                       # SelectSeq(IdsLines[i].ids_raw, LAMBDA u : u.t = "char")

\* U+4E00..U+9FFF, U+3400..U+4DBF, U+2E80..U+2EFF and U+2F00..U+2FDF
C16_Ranges == (19968..40959) \cup (13312..19903) \cup (11904..12031) \cup (12032..12255)

\* C16: the component list of every record kept by parse_chise_ids is, in
\* descriptor order, the characters of the cleaned descriptor that are not
\* operators, are not the decomposed character and lie in one of the four
\* ranges.
C16_ComponentsExact ==
    IdsParsed =>
        \A i \in 1..Len(ids_data) :
            LET kept == SelectSeq(ids_data[i][2].ids,
                                  LAMBDA u : /\ u.c \notin 12272..12283
                                             /\ u.c # ids_data[i][1]
                                             /\ u.c \in C16_Ranges)
            IN  ids_data[i][2].components = [k \in 1..Len(kept) |-> kept[k].c]

\* C16 witness: a kept record whose descriptor holds a character outside the
\* ranges that is not an operator.
C16_Witness ==
    /\ IdsParsed
    /\ \E i \in 1..Len(ids_data) :
           \E k \in 1..Len(ids_data[i][2].ids) :
               /\ ids_data[i][2].ids[k].c \notin 12272..12283
               /\ ids_data[i][2].ids[k].c \notin C16_Ranges

WordFreqFile == FileLines(WordFreqPool, "SUBTLEX-CH-WF.xlsx", edits)

CharFreqFile == FileLines(CharFreqPool, "SUBTLEX-CH-CHR.xlsx", edits)

\* parse_subtlex has run
WordFreqParsed ==
    /\ pc \in {"subtlex_char", "variants", "build", "write", "done"}
    /\ ~Fault("SUBTLEX-CH-WF.xlsx missing", edits) /\ ~Fault("openpyxl missing", edits)

\* parse_subtlex_char has run
CharFreqParsed ==
    /\ pc \in {"variants", "build", "write", "done"}
    /\ ~Fault("SUBTLEX-CH-CHR.xlsx missing", edits) /\ ~Fault("openpyxl missing", edits)

\* the valid data rows of the word table and of the character table
ValidWordRows ==
    {i \in 1..Len(WordFreqFile) :
        /\ WordFreqFile[i].type = "str" /\ Len(WordFreqFile[i].text) >= 1
        /\ WordFreqFile[i].text \notin {HeaderWord, HeaderTotal, HeaderContext}}

ValidCharRows ==
    {i \in 1..Len(CharFreqFile) :
        /\ CharFreqFile[i].type = "str" /\ Len(CharFreqFile[i].text) = 1
        /\ CharFreqFile[i].text # HeaderC}

\* the position of row i among the valid rows
PositionAmong(valid, i) == Cardinality({j \in valid : j <= i})

\* C17: each frequency extractor gives the k-th valid data row the rank k
\* (a key of several rows keeps the rank of its last row): rows that are
\* headers or whose first cell is not a string of the expected length consume
\* no rank, and the ranks of distinct keys are distinct and positive.
C17_RankIsPosition ==
    /\ WordFreqParsed =>
           /\ KeySet(word_freq) = {WordFreqFile[i].text : i \in ValidWordRows}
           /\ \A w \in KeySet(word_freq) :
                  DictGet(word_freq, w, 0) =
                      PositionAmong(ValidWordRows,
                          CHOOSE i \in ValidWordRows :
                              /\ WordFreqFile[i].text = w
                              /\ \A j \in ValidWordRows : WordFreqFile[j].text = w => j <= i)
           /\ \A v, w \in KeySet(word_freq) :
                  v # w => DictGet(word_freq, v, 0) # DictGet(word_freq, w, 0)
    /\ CharFreqParsed =>
           /\ KeySet(char_freq) = {CharFreqFile[i].text[1] : i \in ValidCharRows}
           /\ \A c \in KeySet(char_freq) :
                  DictGet(char_freq, c, 0) =
                      PositionAmong(ValidCharRows,
                          CHOOSE i \in ValidCharRows :
                              /\ CharFreqFile[i].text[1] = c
                              /\ \A j \in ValidCharRows : CharFreqFile[j].text[1] = c => j <= i)

\* C17 witness: both tables are parsed; in the word table a row that is not
\* a valid data row lies between two valid rows, and in the character table a
\* row of two characters does.
C17_Witness ==
    /\ WordFreqParsed /\ CharFreqParsed
    /\ \E i \in 1..Len(WordFreqFile) :
           /\ i \notin ValidWordRows
           /\ \E j, k \in ValidWordRows : j < i /\ i < k
    /\ \E i \in 1..Len(CharFreqFile) :
           /\ i \notin ValidCharRows
           /\ \E j, k \in ValidCharRows : j < i /\ i < k

(***************************************************************************)
(* The example words of one character, for dictionaries of more words than *)
(* the limit.  The dictionary and the word table grow line by line, as the *)
(* loops of parse_cedict and parse_subtlex read them; the example words of *)
(* the character are then computed as the main pass computes them.         *)
(***************************************************************************)
\* the dictionary holds at most MaxWords generated words, the word table at
\* most MaxRanked rows
MaxWords == 31

MaxRanked == 3

\* the k-th generated word: the character followed by U+4E00 + k
WordOf(k) == <<An, 19968 + k>>

\* the words a row of the word table can hold
RankCandidates == {WordOf(1), WordOf(2), WordOf(MaxWords), <<An, An>>, <<Nv, Nv>>}

InitWords ==
    /\ pc = "dictionary"
    /\ edits = {}
    /\ exc = ""
    /\ readings = <<>>
    /\ radical_data = <<>>
    /\ grade_data = <<>>
    /\ cedict = parse_cedict(<<Entry(<<Nv, Nv>>, <<Nv, Nv>>, "nu3 nu3", <<"girls">>),
                               Entry(<<An, An>>, <<An, An>>, "an1 an1", <<"safe">>)>>)
    /\ ids_data = <<>>
    /\ appears_in = <<>>
    /\ word_freq = <<>>
    /\ char_freq = <<>>
    /\ variants = <<<<>>, <<>>>>
    /\ result = None
    /\ output = None
    /\ NoBackend

\* parse_cedict reads one more line: the generated words come in ascending
\* order from the first or in descending order from the last
AddWord ==
    /\ pc = "dictionary"
    /\ \E k \in 1..MaxWords :
        /\ ~DictHas(cedict.words, WordOf(k))
        /\ \/ k \in {1, MaxWords} /\ \A j \in 1..MaxWords : ~DictHas(cedict.words, WordOf(j))
           \/ k > 1 /\ DictHas(cedict.words, WordOf(k - 1)) /\ DictHas(cedict.words, WordOf(1))
           \/ /\ k < MaxWords /\ DictHas(cedict.words, WordOf(k + 1))
              /\ DictHas(cedict.words, WordOf(MaxWords))
        /\ cedict' = CedictFrom(<<Entry(WordOf(k), WordOf(k), "an1", <<"word">>)>>, 1,
                                cedict.words, cedict.by_char)
    /\ UNCHANGED <<pc, edits, exc, readings, radical_data, grade_data, ids_data,
                   appears_in, word_freq, char_freq, variants, result, output>>
    /\ UNCHANGED backend

\* parse_subtlex reads one more row
RankWord ==
    /\ pc = "dictionary"
    /\ Len(word_freq) < MaxRanked
    /\ \E w \in RankCandidates :
        /\ ~DictHas(word_freq, w)
        /\ word_freq' = SubtlexFrom(<<Str(w)>>, 1, Len(word_freq), word_freq)
    /\ UNCHANGED <<pc, edits, exc, readings, radical_data, grade_data, cedict, ids_data,
                   appears_in, char_freq, variants, result, output>>
    /\ UNCHANGED backend

\* `char_words = sorted(char_words, key=...)[:30]` for the character
SortExampleWords ==
    /\ pc = "dictionary"
    /\ pc' = "example_words"
    /\ result' = Some(ExampleWords(cedict, word_freq, An))
    /\ UNCHANGED <<edits, exc, readings, radical_data, grade_data, cedict, ids_data,
                   appears_in, word_freq, char_freq, variants, output>>
    /\ UNCHANGED backend

NextWords == AddWord \/ RankWord \/ SortExampleWords

SpecWords == InitWords /\ [][NextWords]_vars

\* the dictionary words that contain the character
WordsWith(c) == {w \in KeySet(cedict.words) : InList(c, w)}

\* v is before w in the order of code points
LexLess(v, w) ==
    \/ \E k \in 1..Len(v) :
           /\ k <= Len(w) /\ v[k] < w[k]
           /\ \A j \in 1..(k - 1) : v[j] = w[j]
    \/ Len(v) < Len(w) /\ \A j \in 1..Len(v) : v[j] = w[j]

\* v is before w: by rank when both have one, a word with a rank before a word
\* without, by the word itself when neither has a rank
Before(v, w) ==
    IF DictHas(word_freq, v) /\ DictHas(word_freq, w)
    THEN DictGet(word_freq, v, 0) < DictGet(word_freq, w, 0)
    ELSE IF DictHas(word_freq, v) # DictHas(word_freq, w) THEN DictHas(word_freq, v)
    ELSE LexLess(v, w)

\* C18: the example words of a main-pass record are at most 30, without
\* duplicates, dictionary words that contain the character, and the first 30
\* of all such words in the order of (rank, word), a word without a rank
\* after every word with one (ranks are below 999999).
C18_ExampleWords ==
    pc = "example_words" =>
        LET words == result[1]
        IN  /\ Len(words) <= 30
            /\ \A i, j \in 1..Len(words) : i # j => words[i] # words[j]
            /\ Elems(words) \subseteq WordsWith(An)
            /\ Len(words) = IF Cardinality(WordsWith(An)) < 30
                            THEN Cardinality(WordsWith(An)) ELSE 30
            /\ \A i, j \in 1..Len(words) : i < j => Before(words[i], words[j])
            /\ \A w \in WordsWith(An) \ Elems(words) :
                   \A i \in 1..Len(words) : Before(words[i], w)

\* C18 witness: more than 30 dictionary words contain the character, some
\* with a rank and some without, a word holds the character twice, and a
\* word of the dictionary does not hold it.
C18_Witness ==
    /\ pc = "example_words"
    /\ Cardinality(WordsWith(An)) > 30
    /\ Len(result[1]) = 30
    /\ \E v, w \in WordsWith(An) :
           DictHas(word_freq, v) /\ ~DictHas(word_freq, w) /\ InList(w, result[1])
    /\ InList(<<An, An>>, result[1])
    /\ KeySet(cedict.words) # WordsWith(An)

\* the three keys of a member, from its emitted record
EmittedMemberKey(c) ==
    <<IF Record(c).gradeLevel > 0 THEN 0 ELSE 1,
      IF Record(c).gradeLevel > 0 THEN Record(c).gradeLevel ELSE 99,
      Record(c).strokes>>

\* C19: every emitted member list is in the three-key order (graded before
\* ungraded, grade ascending with ungraded as 99, strokes ascending) of the
\* grade and strokes of the emitted records.  The code violates it: the lists
\* are sorted before the enrichment pass gives records an inherited grade.
C19_MembersOrdered ==
    Emitted =>
        \A key \in DOMAIN EmittedRadicals :
            LET members == Members(EmittedRadicals, key)
            IN  \A i, j \in 1..Len(members) :
                    i < j => ~SeqLess(EmittedMemberKey(members[j]), EmittedMemberKey(members[i]))

\* the characters of the main-pass records: the members of the radicals
MainChars ==
    UNION {Elems(Members(EmittedRadicals, key)) : key \in DOMAIN EmittedRadicals}

\* the readings mapping has an entry for character c
HasReadingsEntry(c) ==
    \E cp \in KeySet(readings) : ~CodepointRaises(cp) /\ codepoint_to_char(cp) = c

\* C20: a character that is a component of a main-pass record, is no
\* main-pass record itself and has an entry in the readings mapping is
\* emitted with no words, gradeLevel 0 and its attested definition, or
\* "component" when it has none.  The code violates it: it promotes only a
\* component whose entry holds a reading, and the enrichment pass can give a
\* promoted record an inherited grade.
C20_ComponentPromotion ==
    Emitted =>
        \A a \in MainChars :
            \A comp \in Elems(Record(a).components) :
                (comp \notin MainChars /\ HasReadingsEntry(comp)) =>
                    /\ DictHas(EmittedCharacters, comp)
                    /\ Record(comp).words = <<>>
                    /\ Record(comp).gradeLevel = 0
                    /\ Record(comp).definition =
                           DictGet(DictGet(readings, FormatCodepoint(comp), <<>>),
                                   "definition", "component")

\* C21: no emitted record has gradeLevel 0 while its traditional counterpart
\* is emitted with a gradeLevel above 0, and none has charFrequency 0 while
\* its simplified counterpart is emitted with a charFrequency above 0.  The
\* code violates it: the single in-place pass visits a record before its
\* counterpart has inherited its own value.
C21_EnrichmentComplete ==
    Emitted =>
        \A c \in KeySet(EmittedCharacters) :
            /\ ~ /\ Record(c).gradeLevel = 0
                 /\ Record(c).traditional # None
                 /\ DictHas(EmittedCharacters, Record(c).traditional[1])
                 /\ Record(Record(c).traditional[1]).gradeLevel > 0
            /\ ~ /\ Record(c).charFrequency = 0
                 /\ Record(c).simplified # None
                 /\ DictHas(EmittedCharacters, Record(c).simplified[1])
                 /\ Record(Record(c).simplified[1]).charFrequency > 0

\* character c has a radical/stroke record with ordinal in 1..214 and an
\* attested definition in the readings mapping, under one identifier
C22_Defined(c) ==
    \E i \in 1..Len(radical_data) :
        LET cp == radical_data[i][1]
        IN  /\ ~CodepointRaises(cp) /\ codepoint_to_char(cp) = c
            /\ radical_data[i][2].radical \in 1..214
            /\ DictHas(DictGet(readings, cp, <<>>), "definition")

\* character c is a component of another emitted record and has an attested
\* reading in the readings mapping
C22_ComponentWithReading(c) ==
    /\ \E a \in KeySet(EmittedCharacters) \ {c} : InList(c, Record(a).components)
    /\ \E cp \in KeySet(readings) :
           /\ ~CodepointRaises(cp) /\ codepoint_to_char(cp) = c
           /\ DictGet(DictGet(readings, cp, <<>>), "pinyin", "") # ""

\* C22: every key of the emitted characters has an attested definition and a
\* radical/stroke record with ordinal in 1..214, or is a component of another
\* emitted record and has an attested reading.
C22_OnlyDefinedOrComponent ==
    Emitted =>
        \A c \in KeySet(EmittedCharacters) :
            C22_Defined(c) \/ C22_ComponentWithReading(c)

\* a dataset holding a main-pass record and a promoted component that has no
\* definition of its own
C22_Witness ==
    /\ Emitted
    /\ C22_Defined(An) /\ DictHas(EmittedCharacters, An)
    /\ DictHas(EmittedCharacters, Mian) /\ ~C22_Defined(Mian)
    /\ Record(Mian).definition = "component"

\* the number of times character c occurs in a member list
C23_Count(members, c) == Cardinality({i \in 1..Len(members) : members[i] = c})

\* C23: the keys of the emitted radicals are keys of the enumeration, and a
\* character occurs at most once across all member lists, in the list of the
\* radical its record names.  The code violates it: it keys the
\* radical/stroke records by identifier and appends the character of every
\* identifier, so a character written under two identifiers is appended
\* twice.
C23_MemberOnce ==
    Emitted =>
        /\ DOMAIN EmittedRadicals \subseteq RadicalKeys
        /\ \A c \in SampleChars :
               /\ \A key \in DOMAIN EmittedRadicals :
                      /\ C23_Count(Members(EmittedRadicals, key), c) <= 1
                      /\ InList(c, Members(EmittedRadicals, key)) =>
                             /\ DictHas(EmittedCharacters, c)
                             /\ Record(c).radical = key
               /\ \A k1, k2 \in DOMAIN EmittedRadicals :
                      (InList(c, Members(EmittedRadicals, k1))
                           /\ InList(c, Members(EmittedRadicals, k2))) => k1 = k2

\* parse_cedict has run
CedictParsed ==
    pc \in {"chise_ids", "appears_in", "subtlex", "subtlex_char", "variants",
            "build", "write", "done"}

\* the dictionary words: the simplified forms of the well-formed lines
DictionaryWords ==
    {CedictFile[i].simplified : i \in {k \in 1..Len(CedictFile) :
        IsData(CedictFile[k]) /\ CedictFile[k].shape}}

\* the number of times word w occurs in by_char[c]
C24_Count(c, w) ==
    LET listed == DictGet(cedict.by_char, c, <<>>)
    IN  Cardinality({i \in 1..Len(listed) : listed[i] = w})

\* C24: in the reverse index of parse_cedict a dictionary word occurs exactly
\* once under every character it contains and not at all under any other
\* character, and nothing but dictionary words is listed.
C24_ReverseIndexExact ==
    CedictParsed =>
        /\ \A c \in SampleChars : \A w \in DictionaryWords :
               C24_Count(c, w) = IF InList(c, w) THEN 1 ELSE 0
        /\ \A i \in 1..Len(cedict.by_char) :
               /\ cedict.by_char[i][1] \in SampleChars
               /\ Elems(cedict.by_char[i][2]) \subseteq DictionaryWords

\* C24 witness: the index lists once a word that holds a character twice and
\* a word that two dictionary lines define
C24_Witness ==
    /\ CedictParsed
    /\ C24_Count(Nv, <<Nv, Nv>>) = 1
    /\ \E i, j \in 1..Len(CedictFile) :
           i < j /\ IsEntryOf(CedictFile[i], <<An>>) /\ IsEntryOf(CedictFile[j], <<An>>)
    /\ C24_Count(An, <<An>>) = 1

\* the collections the enrichment pass can start from: the characters after
\* component promotion, for every order the set of components can be visited
BeforeEnrichment ==
    LET first == FirstPass(BuildInputs).val
    IN  {Promote(compOrder, 1, BuildInputs, first[2]) :
             compOrder \in Orders(AllComponents(first[2]))}

\* the pass from before to after changes nothing but back-filled fields
C25_Frame(before, after) ==
    /\ Len(after) = Len(before)
    /\ \A i \in 1..Len(before) :
           /\ after[i][1] = before[i][1]
           /\ before[i][2].gradeLevel # 0 => after[i][2].gradeLevel = before[i][2].gradeLevel
           /\ before[i][2].charFrequency # 0 =>
                  after[i][2].charFrequency = before[i][2].charFrequency
           /\ [after[i][2] EXCEPT !.gradeLevel = 0, !.charFrequency = 0]
                  = [before[i][2] EXCEPT !.gradeLevel = 0, !.charFrequency = 0]

\* C25: the enrichment pass adds and removes no record, never alters a
\* gradeLevel or charFrequency that was not 0, and leaves every other field of
\* every record unchanged.
C25_EnrichmentFrame ==
    Emitted => \E before \in BeforeEnrichment : C25_Frame(before, EmittedCharacters)

\* C25 witness: the pass has back-filled a grade and a frequency, next to a
\* record that kept the grade it had
C25_Witness ==
    /\ Emitted
    /\ \E before \in BeforeEnrichment :
           /\ C25_Frame(before, EmittedCharacters)
           /\ \E i \in 1..Len(before) :
                  before[i][2].gradeLevel = 0 /\ EmittedCharacters[i][2].gradeLevel > 0
           /\ \E i \in 1..Len(before) :
                  before[i][2].charFrequency = 0 /\ EmittedCharacters[i][2].charFrequency > 0
           /\ \E i \in 1..Len(before) :
                  before[i][2].gradeLevel > 0 /\ before[i][2].traditional # None

\* the gradeLevel a pass gives record i when it reads its counterpart from
\* the snapshot before
C29_SnapshotGrade(before, i) == InheritGrade(before[i][2], before).gradeLevel

\* the charFrequency a pass gives record i when it reads its counterpart from
\* the snapshot before
C29_SnapshotFrequency(before, i) == InheritFrequency(before[i][2], before).charFrequency

\* C29: the in-place enrichment pass gives every record the gradeLevel and the
\* charFrequency of a pass that reads all counterpart values from a snapshot
\* taken before the pass.  The code violates it: a record visited after its
\* counterpart reads the value the counterpart has just inherited.
C29_OrderIndependent ==
    Emitted =>
        \E before \in BeforeEnrichment :
            /\ Len(before) = Len(EmittedCharacters)
            /\ \A i \in 1..Len(before) :
                   /\ EmittedCharacters[i][1] = before[i][1]
                   /\ EmittedCharacters[i][2].gradeLevel = C29_SnapshotGrade(before, i)
                   /\ EmittedCharacters[i][2].charFrequency = C29_SnapshotFrequency(before, i)

\* character c has an attested reading in the readings mapping
C30_HasAttestedReading(c) ==
    \E cp \in KeySet(readings) :
        /\ ~CodepointRaises(cp) /\ codepoint_to_char(cp) = c
        /\ DictGet(DictGet(readings, cp, <<>>), "pinyin", "") # ""

\* C30: every component of every emitted record, promoted records included,
\* that has an attested reading in the readings mapping is a key of the
\* emitted characters.
C30_ComponentClosure ==
    Emitted =>
        \A i \in 1..Len(EmittedCharacters) :
            \A comp \in Elems(EmittedCharacters[i][2].components) :
                C30_HasAttestedReading(comp) => DictHas(EmittedCharacters, comp)

(***************************************************************************)
(* The backend: cluster_into_chapters (app/services/vocabulary.py)         *)
(***************************************************************************)
\* the themes and their keywords, in the order of the dict; a keyword is the
\* sequence of its code points
THEMES == <<
    <<"greetings", <<
        <<20320>>, <<22909>>, <<20877, 35265>>, <<26089>>, <<26202>>,
        <<35831>>, <<35874, 35874>>, <<23545, 19981, 36215>>, <<27809,
        20851, 31995>> >> >>,
    <<"family", <<
        <<29240, 29240>>, <<22920, 22920>>, <<23478>>, <<20799, 23376>>,
        <<22899, 20799>>, <<21733, 21733>>, <<22992, 22992>>, <<24351,
        24351>>, <<22969, 22969>>, <<23401, 23376>>, <<29238>>,
        <<27597>>, <<20146>> >> >>,
    <<"food", <<
        <<21507>>, <<21917>>, <<39277>>, <<33756>>, <<27700>>,
        <<33590>>, <<32905>>, <<40060>>, <<34507>>, <<26524>>, <<33529,
        26524>>, <<31859>>, <<38754>> >> >>,
    <<"time", <<
        <<20170, 22825>>, <<26126, 22825>>, <<26152, 22825>>, <<24180>>,
        <<26376>>, <<26085>>, <<26143, 26399>>, <<23567, 26102>>,
        <<20998, 38047>>, <<29616, 22312>>, <<26102, 20505>>, <<26089,
        19978>>, <<26202, 19978>> >> >>,
    <<"numbers", <<
        <<19968>>, <<20108>>, <<19977>>, <<22235>>, <<20116>>,
        <<20845>>, <<19971>>, <<20843>>, <<20061>>, <<21313>>,
        <<30334>>, <<21315>>, <<19975>>, <<20960>>, <<22810, 23569>> >> >>,
    <<"places", <<
        <<20013, 22269>>, <<21271, 20140>>, <<23398, 26657>>, <<21307,
        38498>>, <<21830, 24215>>, <<39277, 24215>>, <<26426, 22330>>,
        <<20844, 21496>>, <<38134, 34892>> >> >>,
    <<"transport", <<
        <<36710>>, <<20986, 31199, 36710>>, <<20844, 20849, 27773,
        36710>>, <<39134, 26426>>, <<28779, 36710>>, <<22320, 38081>>,
        <<36208>>, <<22352>>, <<24320>> >> >>,
    <<"work", <<
        <<24037, 20316>>, <<19978, 29677>>, <<20844, 21496>>, <<32769,
        26495>>, <<21516, 20107>>, <<20250, 35758>>, <<21150, 20844,
        23460>> >> >>,
    <<"shopping", <<
        <<20080>>, <<21334>>, <<38065>>, <<22359>>, <<20415, 23452>>,
        <<36149>>, <<21830, 24215>>, <<36229, 24066>> >> >>,
    <<"weather", <<
        <<22825, 27668>>, <<28909>>, <<20919>>, <<19979, 38632>>,
        <<26228>>, <<39118>>, <<38634>> >> >>,
    <<"health", <<
        <<36523, 20307>>, <<21307, 38498>>, <<21307, 29983>>, <<33647>>,
        <<30149>>, <<22836>>, <<30140>> >> >>,
    <<"study", <<
        <<23398, 20064>>, <<23398, 29983>>, <<32769, 24072>>, <<20070>>,
        <<35838>>, <<32771, 35797>>, <<38382, 39064>>, <<22238, 31572>> >> >>,
    <<"emotions", <<
        <<39640, 20852>>, <<24555, 20048>>, <<38590, 36807>>, <<29983,
        27668>>, <<21916, 27426>>, <<29233>>, <<24597>>, <<25285,
        24515>> >> >>,
    <<"actions", <<
        <<20570>>, <<30475>>, <<21548>>, <<35828>>, <<20889>>,
        <<35835>>, <<24819>>, <<30693, 36947>>, <<32473>>, <<29992>> >> >>,
    <<"descriptions", <<
        <<22823>>, <<23567>>, <<39640>>, <<30702>>, <<38271>>,
        <<30701>>, <<22909>>, <<22351>>, <<26032>>, <<26087>>,
        <<24555>>, <<24930>> >> >> >>

\* Python's `a in b` on strings
Contains(b, a) ==
    \E i \in 0..(Len(b) - Len(a)) : SubSeq(b, i + 1, i + Len(a)) = a

\* the first theme with a keyword that is in the word or holds the word, or
\* None
get_theme_for_word(word) ==
    LET hits == {t \in 1..Len(THEMES) :
                    \E k \in 1..Len(THEMES[t][2]) :
                        Contains(word, THEMES[t][2][k]) \/ Contains(THEMES[t][2][k], word)}
    IN  IF hits = {} THEN None
        ELSE Some(THEMES[CHOOSE t \in hits : \A u \in hits : t <= u][1])

\* a VocabularyEntry: the fields cluster_into_chapters reads
VocabularyEntry(simplified, frequency) ==
    [simplified |-> simplified, frequency |-> frequency]

\* sorted(list, key=lambda e: e.frequency)
ByFrequency(list) == Sorted(list, [k \in 1..Len(list) |-> <<list[k].frequency>>])

RECURSIVE GroupByTheme(_, _, _, _)
\* `for entry in sorted_entries`: the pair of themed_groups and unthemed
GroupByTheme(sorted_entries, i, themed_groups, unthemed) ==
    IF i > Len(sorted_entries) THEN [themed_groups |-> themed_groups, unthemed |-> unthemed]
    ELSE LET entry == sorted_entries[i]
             theme == get_theme_for_word(entry.simplified)
         IN  IF theme # None
             THEN GroupByTheme(sorted_entries, i + 1,
                      DictSet(themed_groups, theme[1],
                              Append(DictGet(themed_groups, theme[1], <<>>), entry)),
                      unthemed)
             ELSE GroupByTheme(sorted_entries, i + 1, themed_groups, Append(unthemed, entry))

\* `if len(words) >= 5` and `if len(chunk) >= 5`
MinChapterWords == 5

\* [w.simplified for w in words]
Simplified(words) == [k \in 1..Len(words) |-> words[k].simplified]

\* a chapter; the title is the chapter number and the name put after it
ChapterOf(chapter_num, name, theme, words) ==
    [order |-> chapter_num,
     title |-> [chapter |-> chapter_num, name |-> name],
     theme |-> theme,
     vocabulary |-> Simplified(words)]

\* a bug: the chapter number is not advanced
NextChapterNum_Stuck(chapter_num) == chapter_num

\* `chapter_num += 1`
NextChapterNum(chapter_num) == chapter_num + 1

\* a bug: every word of the theme is handed on, the words of the chapter too
Spill_All(words, n) == words

\* `words[words_per_chapter:]`
Spill(words, n) == SubSeq(words, n + 1, Len(words))

RECURSIVE ThemedChapters(_, _, _, _)
\* `for theme, words in themed_groups.items()`; acc holds chapters,
\* chapter_num and unthemed
ThemedChapters(themed_groups, j, n, acc) ==
    IF j > Len(themed_groups) THEN acc
    ELSE LET theme == themed_groups[j][1]
             words == themed_groups[j][2]
         IN  IF Len(words) >= MinChapterWords
             THEN ThemedChapters(themed_groups, j + 1, n,
                      [chapters |-> Append(acc.chapters,
                                       ChapterOf(acc.chapter_num, theme, theme, Take(words, n))),
                       chapter_num |-> NextChapterNum(acc.chapter_num),
                       unthemed |-> acc.unthemed \o Spill(words, n)])
             ELSE ThemedChapters(themed_groups, j + 1, n, acc)

RECURSIVE MixedChapters(_, _, _, _)
\* `for i in range(0, len(unthemed), words_per_chapter)`; acc holds chapters
\* and chapter_num
MixedChapters(unthemed, i, n, acc) ==
    IF i >= Len(unthemed) THEN acc.chapters
    ELSE LET chunk == SubSeq(unthemed, i + 1,
                             IF i + n < Len(unthemed) THEN i + n ELSE Len(unthemed))
         IN  IF Len(chunk) >= MinChapterWords
             THEN MixedChapters(unthemed, i + n, n,
                      [chapters |-> Append(acc.chapters,
                                       ChapterOf(acc.chapter_num, "Mixed Vocabulary",
                                                 "general", chunk)),
                       chapter_num |-> NextChapterNum(acc.chapter_num)])
             ELSE MixedChapters(unthemed, i + n, n, acc)

\* cluster_into_chapters(entries, words_per_chapter), words_per_chapter >= 1
cluster_into_chapters(list, n) ==
    LET groups == GroupByTheme(ByFrequency(list), 1, <<>>, <<>>)
        themed == ThemedChapters(groups.themed_groups, 1, n,
                      [chapters |-> <<>>, chapter_num |-> 1, unthemed |-> groups.unthemed])
    IN  MixedChapters(ByFrequency(themed.unthemed), 0, n,
            [chapters |-> themed.chapters, chapter_num |-> themed.chapter_num])

\* the vocabulary holds at most MaxEntries entries, a chapter at most
\* MaxPerChapter words, and the sample words are DistinctWords per kind
MaxEntries == 11

MaxPerChapter == 6

DistinctWords == 5

\* the first FamilyEntries entries of the vocabulary are family words or
\* words of no theme, the later ones greetings or words of no theme
FamilyEntries == 6

\* the first character of the k-th sample word: 家 (a keyword of family) or
\* 你 (a keyword of greetings), or 安 (in no keyword)
VocabKinds(k) == {IF k <= FamilyEntries THEN 23478 ELSE 20320, 23433}

\* the k-th sample entry of a kind: the character of the kind followed by
\* one of U+3400.., which no keyword holds; the frequencies repeat and are
\* not in order
SampleEntry(kind, k) ==
    VocabularyEntry(<<kind, 13312 + (k % DistinctWords)>>, ((k * 7) % 5) + 1)

\* the caller has one more entry in its vocabulary
AddEntry ==
    /\ chapters = None
    /\ Len(entries) < MaxEntries
    /\ \E kind \in VocabKinds(Len(entries) + 1) :
           entries' = Append(entries, SampleEntry(kind, Len(entries) + 1))
    /\ UNCHANGED <<words_per_chapter, chapters, users, requests, responses, bcrypt_truncates>>
    /\ UNCHANGED pipeline

\* `chapters = cluster_into_chapters(entries, words_per_chapter)`
Cluster ==
    /\ chapters = None
    /\ \E n \in 1..MaxPerChapter :
        /\ words_per_chapter' = n
        /\ chapters' = Some(cluster_into_chapters(entries, n))
    /\ UNCHANGED <<entries, users, requests, responses, bcrypt_truncates>>
    /\ UNCHANGED pipeline

NextChapters == AddEntry \/ Cluster

SpecChapters == Init /\ [][NextChapters]_vars

\* the chapters returned
Returned_Chapters == chapters[1]

\* C26: the chapters are returned in ascending order and their orders are
\* exactly 1, 2, ..., n.
C26_OrdersSequential ==
    chapters # None =>
        \A i \in 1..Len(Returned_Chapters) : Returned_Chapters[i].order = i

\* C26 witness: three chapters are returned, a themed one before a mixed one
C26_Witness ==
    /\ chapters # None
    /\ Len(Returned_Chapters) >= 2
    /\ Returned_Chapters[1].theme # "general"
    /\ Returned_Chapters[Len(Returned_Chapters)].theme = "general"

\* the number of entries of the list whose word is w
C27_Count(list, w) == Cardinality({i \in 1..Len(list) : list[i] = w})

\* every word the chapters hold
C27_Placed ==
    UNION {Elems(Returned_Chapters[i].vocabulary) : i \in 1..Len(Returned_Chapters)}

RECURSIVE C27_Total(_, _)
\* the number of places the word has in the first i chapters
C27_Total(w, i) ==
    IF i = 0 THEN 0
    ELSE C27_Total(w, i - 1) + C27_Count(Returned_Chapters[i].vocabulary, w)

\* C27: every chapter has at least one and at most words_per_chapter words,
\* and no entry is placed twice: a word has no more places in the chapters
\* than the vocabulary has entries of it.
C27_ChaptersBounded ==
    chapters # None =>
        /\ \A i \in 1..Len(Returned_Chapters) :
               /\ Len(Returned_Chapters[i].vocabulary) >= 1
               /\ Len(Returned_Chapters[i].vocabulary) <= words_per_chapter
        /\ \A w \in C27_Placed :
               C27_Total(w, Len(Returned_Chapters)) <= C27_Count(Simplified(entries), w)

\* C27 witness: a theme has more words than a chapter takes, the rest is
\* placed in a mixed chapter, and the vocabulary has a word twice
C27_Witness ==
    /\ chapters # None
    /\ Len(Returned_Chapters) >= 2
    /\ Returned_Chapters[1].theme = "family"
    /\ \E i \in 1..Len(Returned_Chapters) :
           /\ Returned_Chapters[i].theme = "general"
           /\ \E k \in 1..Len(Returned_Chapters[i].vocabulary) :
                  Returned_Chapters[i].vocabulary[k][1] = 23478
    /\ \E w \in C27_Placed : C27_Count(Simplified(entries), w) = 2

(***************************************************************************)
(* The backend: AuthController (app/controllers/auth.py).  A handler runs  *)
(* in the session of its request: it reads the rows that are committed,    *)
(* its flush sends the INSERT, and the session is committed when the       *)
(* response is sent.  The handlers of several requests interleave at their *)
(* awaits.                                                                 *)
(***************************************************************************)
\* the server handles at most MaxRequests requests, MaxInFlight at a time
MaxRequests == 3

MaxInFlight == 2

\* a password: the first 72 bytes of its UTF-8 encoding, which are the bytes
\* bcrypt reads, and the bytes after them
Password(head, tail) == [head |-> head, tail |-> tail]

\* the sample requests: two emails, two short passwords and two passwords of
\* 73 bytes that differ in the last byte
Emails == {"duplicate@example.com", "login@example.com"}

Passwords ==
    {Password("password123", ""), Password("differentpassword", ""),
     Password("72 bytes", "x"), Password("72 bytes", "y")}

\* the values of bcrypt.gensalt()
Salts == {"salt1", "salt2"}

\* bcrypt.hashpw(password, salt): bcrypt reads the first 72 bytes of the
\* password; given more, the installed bcrypt either drops the rest or
\* raises ValueError.  The digest of the bytes read is modelled by the bytes.
hashpw(password, salt) ==
    IF password.tail # "" /\ ~bcrypt_truncates THEN Raised("ValueError")
    ELSE Returned([salt |-> salt, digest |-> password.head])

\* bcrypt.checkpw(password, hashed_password): the password hashed with the
\* salt of hashed_password is hashed_password
checkpw(password, hashed_password) ==
    LET hashed == hashpw(password, hashed_password.salt)
    IN  IF hashed.exc # "" THEN hashed ELSE Returned(hashed.val = hashed_password)

\* `select(User).where(User.email == email)` ... scalar_one_or_none()
SelectUser(email) ==
    IF \E i \in 1..Len(users) : users[i].email = email
    THEN Some(users[CHOOSE i \in 1..Len(users) : users[i].email = email])
    ELSE None

\* User(email=..., hashed_password=...): is_premium and is_active take their
\* defaults; the id is the number of the request that creates the row
User(id, email, hashed_password) ==
    [id |-> id, email |-> email, hashed_password |-> hashed_password,
     is_premium |-> FALSE, is_active |-> TRUE]

\* jwt_auth.create_token(identifier=str(user.id))
create_token(user) == Some([sub |-> user.id])

\* the list without its i-th element
RemoveAt(list, i) == SubSeq(list, 1, i - 1) \o SubSeq(list, i + 1, Len(list))

\* the response to a request
Response(request, status, token) ==
    [id |-> request.id, op |-> request.op, email |-> request.email,
     password |-> request.password, registered |-> request.registered,
     status |-> status, token |-> token]

\* the handler of requests[i] ends with the response
Respond(i, status, token) ==
    /\ requests' = RemoveAt(requests, i)
    /\ responses' = Append(responses, Response(requests[i], status, token))

\* a client sends POST /auth/register or POST /auth/login
Receive ==
    /\ Len(requests) < MaxInFlight
    /\ Len(requests) + Len(responses) < MaxRequests
    /\ \E op \in {"register", "login"}, email \in Emails, password \in Passwords :
           requests' = Append(requests,
               [id |-> Len(requests) + Len(responses) + 1,
                op |-> op, email |-> email, password |-> password,
                registered |-> SelectUser(email) # None,
                at |-> "select", user |-> None])
    /\ UNCHANGED <<users, responses>>
    /\ UNCHANGED <<entries, words_per_chapter, chapters, bcrypt_truncates>>
    /\ UNCHANGED pipeline

\* register: `result = await db_session.execute(select(User)...)` and the
\* test that raises HTTPException(status_code=409)
RegisterSelect ==
    /\ \E i \in 1..Len(requests) :
        /\ requests[i].op = "register" /\ requests[i].at = "select"
        /\ IF SelectUser(requests[i].email) # None
           THEN Respond(i, 409, None)
           ELSE /\ requests' = [requests EXCEPT ![i].at = "flush"]
                /\ responses' = responses
    /\ UNCHANGED users
    /\ UNCHANGED <<entries, words_per_chapter, chapters, bcrypt_truncates>>
    /\ UNCHANGED pipeline

\* register: the user is made, added and flushed, and the token is made.
\* email is unique: the INSERT waits for the session that has inserted the
\* email and not yet committed, and fails with IntegrityError when a committed
\* row has the email.  An exception other than HTTPException gives status 500.
RegisterFlush ==
    /\ \E i \in 1..Len(requests), salt \in Salts :
        /\ requests[i].op = "register" /\ requests[i].at = "flush"
        /\ \A j \in 1..Len(requests) :
               (j # i /\ requests[j].user # None) =>
                   requests[j].user[1].email # requests[i].email
        /\ LET hashed == hashpw(requests[i].password, salt)
           IN  IF hashed.exc # "" THEN Respond(i, 500, None)
               ELSE IF SelectUser(requests[i].email) # None THEN Respond(i, 500, None)
               ELSE /\ requests' = [requests EXCEPT
                           ![i].at = "send",
                           ![i].user = Some(User(requests[i].id, requests[i].email,
                                                 hashed.val))]
                    /\ responses' = responses
    /\ UNCHANGED users
    /\ UNCHANGED <<entries, words_per_chapter, chapters, bcrypt_truncates>>
    /\ UNCHANGED pipeline

\* register returns AuthResponseDTO: the session is committed before the
\* response with status 201 is sent
RegisterSend ==
    /\ \E i \in 1..Len(requests) :
        /\ requests[i].op = "register" /\ requests[i].at = "send"
        /\ users' = Append(users, requests[i].user[1])
        /\ Respond(i, 201, create_token(requests[i].user[1]))
    /\ UNCHANGED <<entries, words_per_chapter, chapters, bcrypt_truncates>>
    /\ UNCHANGED pipeline

\* login
Login ==
    /\ \E i \in 1..Len(requests) :
        /\ requests[i].op = "login" /\ requests[i].at = "select"
        /\ LET user == SelectUser(requests[i].email)
           IN  IF user = None THEN Respond(i, 401, None)
               ELSE LET checked == checkpw(requests[i].password, user[1].hashed_password)
                    IN  IF checked.exc # "" THEN Respond(i, 500, None)
                        ELSE IF ~checked.val THEN Respond(i, 401, None)
                        ELSE IF ~user[1].is_active THEN Respond(i, 401, None)
                        ELSE Respond(i, 200, create_token(user[1]))
    /\ UNCHANGED users
    /\ UNCHANGED <<entries, words_per_chapter, chapters, bcrypt_truncates>>
    /\ UNCHANGED pipeline

\* the server starts with no user, with either bcrypt installed
InitAuth ==
    /\ InitMain
    /\ entries = <<>>
    /\ words_per_chapter = 0
    /\ chapters = None
    /\ users = <<>>
    /\ requests = <<>>
    /\ responses = <<>>
    /\ bcrypt_truncates \in BOOLEAN

NextAuth == Receive \/ RegisterSelect \/ RegisterFlush \/ RegisterSend \/ Login

SpecAuth == InitAuth /\ [][NextAuth]_vars

\* C28: at most one user exists per email; a register request whose email had
\* a user when the request arrived is answered 409, creates no user and gets
\* no token; and a login is answered 200 only with the password of the
\* register request that created the user.  The code violates the last part:
\* bcrypt reads 72 bytes of a password, and neither handler bounds its length.
C28_RegisterLogin ==
    /\ \A i, j \in 1..Len(users) : i # j => users[i].email # users[j].email
    /\ \A k \in 1..Len(responses) :
           (responses[k].op = "register" /\ responses[k].registered) =>
               /\ responses[k].status = 409
               /\ responses[k].token = None
               /\ \A i \in 1..Len(users) : users[i].id # responses[k].id
    /\ \A k \in 1..Len(responses) :
           (responses[k].op = "login" /\ responses[k].status = 200) =>
               \E r \in 1..Len(responses) :
                   /\ responses[r].op = "register" /\ responses[r].status = 201
                   /\ responses[r].email = responses[k].email
                   /\ responses[r].password = responses[k].password

====
